---- MODULE Spec2Model ----
(***************************************************************************)
(* Scene timeline construction and asset resolution of the short-video     *)
(* generator: src/src/video_editor.py (create_semantic_scenes,             *)
(* create_rhythmic_scenes, create_fixed_duration_scenes,                   *)
(* assign_clips_to_scenes, stitch_and_edit_video) and                      *)
(* src/src/video_downloader.py (search_videos and its helpers), and the    *)
(* steps and handlers of main (src/main.py).  Each                         *)
(* function has its own specification; they share the variables, and a     *)
(* specification leaves the variables of the other functions at rest.      *)
(*                                                                         *)
(* Time is counted in ticks, TicksPerSecond ticks to the second.  The      *)
(* program computes on floats; the model computes on exact multiples of a  *)
(* tick, and the inputs are chosen so that every quotient the program      *)
(* takes is exact.  Python lists are 0-based: the model keeps the          *)
(* program's 0-based indices in its variables and adds 1 when it indexes a *)
(* TLA+ sequence.                                                          *)
(***************************************************************************)
EXTENDS Integers, Sequences, FiniteSets, TLC

VARIABLES
    pc,                \* position in the function being run
    script_data,       \* the script: hook, legacy body, segments
    word_timings,      \* list of {word, start, end}
    timing_file,       \* content of assets/temp_timing.json
    use_exact,         \* stitch_and_edit_video: timings came from the file
    total_duration,    \* audio duration (main_duration)
    fixed_duration,    \* window of create_fixed_duration_scenes
    segment_idx,       \* loop index of the function being run
    word_index,        \* create_semantic_scenes: cursor in word_timings
    base_scenes,       \* create_semantic_scenes: scenes before sub-cutting
    scenes,            \* the scene list being built / returned
    result,            \* "running", "none" (None returned), "scenes", "raised"
    current_time,      \* create_fixed_duration_scenes: loop variable
    scene_start_time,  \* create_rhythmic_scenes: start of the open scene
    current_scene_words, \* create_rhythmic_scenes: words of the open scene
    strategy,          \* stitch_and_edit_video: generators called, in order
    \* search_videos
    local_files,       \* the .mp4 files of assets/my_footage
    manual_urls_dict,  \* config.MANUAL_YOUTUBE_URLS
    YOUTUBE_AVAILABLE, \* yt_dlp could be imported
    visual_queries,    \* one query per segment
    fallback_topic,    \* generic topic keyword, <<>> for None
    variation_num,     \* inner loop variable
    segment_variations,     \* candidates of the segment being filled
    all_segment_variations, \* the result: one candidate list per segment
    seen_video_urls,   \* stock links already taken in this run
    used_local_files,  \* local files already taken in this pass
    visual_query,      \* search tier: the query that is searched
    category,          \* category of the segment's query
    category_urls,     \* curated links of the segment
    primary_source,    \* search tier: provider asked first
    video_urls,        \* search tier: stock links found for the segment
    fallback_attempts, \* search tier: mood keywords tried
    calls,             \* functions called so far in this run
    reshuffle_log,     \* "Re-shuffling local library" messages printed
    provider_log,      \* provider queries issued for the segment
    clip_source,       \* clip file written -> the link it was cut from
    \* assign_clips_to_scenes
    video_paths,       \* the asset entries, one per segment
    video_duration,    \* length of each asset file
    unreadable,        \* asset entries VideoFileClip cannot open
    positioned_clips,  \* the clips bound so far
    video_offsets,     \* segment_index -> offset of the next sub-cut
    \* the process: main, the files of config.ASSETS_DIR, repeated calls
    assets,            \* files the process wrote to the assets directory
    undeletable,       \* files whose unlink raises
    warnings,          \* files cleanup_temp_files could not delete
    run,               \* number of the call of the function in the process
    last_run,          \* what the previous call held when it ended
    \* download_youtube_clip
    ffmpeg_path,       \* an ffmpeg binary was found
    attempt,           \* passes of the attempt loop started
    attempted_urls,    \* links tried so far, in order
    video_url,         \* the link of the running pass
    method_log         \* the extraction methods started, in order

sceneVars == <<pc, script_data, word_timings,
               timing_file, use_exact, total_duration, fixed_duration,
               segment_idx, word_index, base_scenes, scenes, result,
               current_time, scene_start_time, current_scene_words,
               strategy>>

\* sceneVars without pc, segment_idx and result, which every function uses
sceneRest == <<script_data, word_timings, timing_file, use_exact,
               total_duration, fixed_duration, word_index, base_scenes,
               scenes, current_time, scene_start_time, current_scene_words,
               strategy>>

searchVars == <<local_files, manual_urls_dict, YOUTUBE_AVAILABLE,
                visual_queries, fallback_topic, variation_num,
                segment_variations, all_segment_variations, seen_video_urls,
                used_local_files, visual_query, category, category_urls,
                primary_source, video_urls, fallback_attempts, calls,
                reshuffle_log, provider_log, clip_source>>

assignVars == <<video_paths, video_duration, unreadable, positioned_clips,
                video_offsets>>

processVars == <<assets, undeletable, warnings, run, last_run>>

clipVars == <<ffmpeg_path, attempt, attempted_urls, video_url, method_log>>

vars == <<sceneVars, searchVars, assignVars, processVars, clipVars>>

\* Python's None where a category, a provider or a clip is expected
None == "None"

\* the values of the variables of a function that is not running
searchIdle ==
    /\ local_files = {}
    /\ manual_urls_dict = [form |-> "dict", urls |-> <<>>]
    /\ YOUTUBE_AVAILABLE = FALSE
    /\ visual_queries = <<>>
    /\ fallback_topic = <<>>
    /\ variation_num = 0
    /\ segment_variations = <<>>
    /\ all_segment_variations = <<>>
    /\ seen_video_urls = {}
    /\ used_local_files = {}
    /\ visual_query = <<>>
    /\ category = None
    /\ category_urls = <<>>
    /\ primary_source = None
    /\ video_urls = <<>>
    /\ fallback_attempts = 0
    /\ calls = {}
    /\ reshuffle_log = <<>>
    /\ provider_log = <<>>
    /\ clip_source = <<>>

\* no call before this one
NoRun == [seen_video_urls |-> {}, used_local_files |-> {},
          video_offsets |-> <<>>]

processIdle ==
    /\ assets = {}
    /\ undeletable = {}
    /\ warnings = {}
    /\ run = 1
    /\ last_run = NoRun

clipIdle ==
    /\ ffmpeg_path = FALSE
    /\ attempt = 0
    /\ attempted_urls = <<>>
    /\ video_url = None
    /\ method_log = <<>>

assignIdle ==
    /\ video_paths = <<>>
    /\ video_duration = <<>>
    /\ unreadable = {}
    /\ positioned_clips = <<>>
    /\ video_offsets = <<>>

-----------------------------------------------------------------------------
(* Units and bounds *)

\* ticks per second: a multiple of 20 (0.05 s steps of get_smart_timings)
\* and of 1..6 (sub-cut quotients)
TicksPerSecond == 3 * 20

Sec(n) == n * TicksPerSecond

MaxSegs == 2        \* segments per script
MaxTimings == 3     \* word timings per list
MaxStitchTimings == 2 \* word timings in the timing file of a stitch run
MaxFixedTotal == 9  \* total_duration tried for the fixed generator
MaxFixedWindow == 3 \* fixed_duration tried for the fixed generator

\* create_semantic_scenes(..., max_scene_duration=3.0), in seconds
MAX_SCENE_DURATION == 3

-----------------------------------------------------------------------------
(* Text: a raw word is a sequence of characters, a text a sequence of raw  *)
(* words (the whitespace-separated tokens of the Python string).           *)

PunctuationChars == {".", ",", "!", "?", ";", ":", "'", "\"", "(", ")"}

Lower(c) == CASE c = "A" -> "a" [] c = "B" -> "b" [] OTHER -> c

RECURSIVE LowerWord(_)
LowerWord(w) == IF w = <<>> THEN <<>>
                ELSE <<Lower(Head(w))>> \o LowerWord(Tail(w))

StripPunct(w) == SelectSeq(w, LAMBDA c : c \notin PunctuationChars)

\* normalize(text): lower-case, delete the punctuation characters, split on
\* whitespace: a token of punctuation only disappears.
RECURSIVE normalize(_)
normalize(text) ==
    IF text = <<>> THEN <<>>
    ELSE LET w == StripPunct(LowerWord(Head(text)))
         IN (IF w = <<>> THEN <<>> ELSE <<w>>) \o normalize(Tail(text))

\* word.rstrip().endswith(('.', '?', '!')) on the text of one timing
EndsSentence(text) ==
    /\ text # <<>>
    /\ LET w == text[Len(text)]
       IN w # <<>> /\ w[Len(w)] \in {".", "?", "!"}

-----------------------------------------------------------------------------
(* create_semantic_scenes, STEP 1: one segment against the timing list *)

RECURSIVE MatchLoop_StopsAtMismatch(_, _, _, _, _, _)
MatchLoop_StopsAtMismatch(wt, words, wi, matched, start_idx, end_idx) ==
    IF wi < Len(wt) /\ matched < Len(words)
          /\ normalize(wt[wi + 1].word) = <<words[matched + 1]>>
    THEN MatchLoop_StopsAtMismatch(wt, words, wi + 1, matched + 1,
                                   IF matched = 0 THEN wi ELSE start_idx, wi)
    ELSE [word_index |-> wi, matched_count |-> matched,
          scene_start_idx |-> start_idx, scene_end_idx |-> end_idx]

\* the while loop of one segment: returns the loop's variables at its exit
RECURSIVE MatchLoop(_, _, _, _, _, _)
MatchLoop(wt, segment_words, wi, matched_count, start_idx, end_idx) ==
    IF wi < Len(wt) /\ matched_count < Len(segment_words)
    THEN LET timing_word == normalize(wt[wi + 1].word)
         IN IF timing_word = <<>>
            THEN MatchLoop(wt, segment_words, wi + 1, matched_count,
                           start_idx, end_idx)
            ELSE IF timing_word[1] = segment_words[matched_count + 1]
            THEN MatchLoop(wt, segment_words, wi + 1, matched_count + 1,
                           IF matched_count = 0 THEN wi ELSE start_idx, wi)
            ELSE MatchLoop(wt, segment_words, wi + 1, matched_count,
                           start_idx, end_idx)
    ELSE [word_index |-> wi, matched_count |-> matched_count,
          scene_start_idx |-> start_idx, scene_end_idx |-> end_idx]

\* the body of the for loop: the scenes appended for segment idx (0-based)
\* and the cursor after it
AllWordsMatched(m, segment_words) == m.matched_count = Len(segment_words)

MatchSegment(wt, segs, idx, wi) ==
    LET segment_text == segs[idx + 1]
        segment_words == normalize(segment_text)
    IN IF Len(segment_words) = 0
       THEN [word_index |-> wi, appended |-> <<>>]
       ELSE LET m == MatchLoop(wt, segment_words, wi, 0, wi, wi)
            IN IF AllWordsMatched(m, segment_words)
               THEN LET start_time == wt[m.scene_start_idx + 1].start
                        end_time == wt[m.scene_end_idx + 1].end
                    IN [word_index |-> m.word_index,
                        appended |-> <<[start_time |-> start_time,
                                        end_time |-> end_time,
                                        duration |-> end_time - start_time,
                                        text |-> segment_text,
                                        segment_index |-> idx]>>]
               ELSE [word_index |-> m.word_index, appended |-> <<>>]

-----------------------------------------------------------------------------
(* create_semantic_scenes, STEP 2: sub-cutting *)

\* int(np.ceil(a / b)) for a >= 0, b > 0
CeilDiv(a, b) == (a + b - 1) \div b

\* a rounding slip: floor plus one instead of the ceiling
NumSubcuts_FloorPlusOne(duration, max_scene_duration) ==
    duration \div max_scene_duration + 1

NumSubcuts_Floor(duration, max_scene_duration) ==
    duration \div max_scene_duration

NumSubcuts(duration, max_scene_duration) == CeilDiv(duration, max_scene_duration)

NeedsSplit(scene, max_scene_duration) == scene.duration > max_scene_duration

SubcutEnd(scene, i, num_subcuts, subcut_duration) ==
    IF i = num_subcuts - 1 THEN scene.end_time
    ELSE scene.start_time + (i + 1) * subcut_duration

\* an off-by-one slip: the sub-cut is numbered from 1
SubScene_OneBased(scene, i, num_subcuts, subcut_duration) ==
    LET subcut_start == scene.start_time + i * subcut_duration
        subcut_end == SubcutEnd(scene, i, num_subcuts, subcut_duration)
    IN [start_time |-> subcut_start,
        end_time |-> subcut_end,
        duration |-> subcut_end - subcut_start,
        text |-> scene.text,
        segment_index |-> scene.segment_index,
        is_subcut |-> TRUE,
        subcut_index |-> i + 1,
        total_subcuts |-> num_subcuts]

SubScene(scene, i, num_subcuts, subcut_duration) ==
    LET subcut_start == scene.start_time + i * subcut_duration
        subcut_end == SubcutEnd(scene, i, num_subcuts, subcut_duration)
    IN [start_time |-> subcut_start,
        end_time |-> subcut_end,
        duration |-> subcut_end - subcut_start,
        text |-> scene.text,
        segment_index |-> scene.segment_index,
        is_subcut |-> TRUE,
        subcut_index |-> i,
        total_subcuts |-> num_subcuts]

KeepScene(scene) ==
    [start_time |-> scene.start_time, end_time |-> scene.end_time,
     duration |-> scene.duration, text |-> scene.text,
     segment_index |-> scene.segment_index, is_subcut |-> FALSE]

\* the scenes one base scene contributes to final_scenes
SplitScene(scene, max_scene_duration) ==
    IF NeedsSplit(scene, max_scene_duration)
    THEN LET num_subcuts == NumSubcuts(scene.duration, max_scene_duration)
             subcut_duration == scene.duration \div num_subcuts
         IN [i \in 1..num_subcuts |->
                SubScene(scene, i - 1, num_subcuts, subcut_duration)]
    ELSE <<KeepScene(scene)>>

-----------------------------------------------------------------------------
(* Inputs *)

WA == <<"a">>
WADot == <<"A", ".">>
WB == <<"b">>
WBang == <<"!">>

\* texts a segment may carry: one word, two words, punctuation only
SegTexts == {<<WADot>>, <<WB>>, <<WA, WB>>, <<WBang>>}

\* the text of one word timing, as the TTS reports it
TimingWords == {<<WA>>, <<WB>>, <<WBang>>}

\* (silence before the word, length of the word), in seconds
TimingShapes == {<<0, 3>>, <<1, 4>>}

RECURSIVE SeqsUpTo(_, _)
SeqsUpTo(S, n) ==
    IF n = 0 THEN {<<>>}
    ELSE LET shorter == SeqsUpTo(S, n - 1)
         IN shorter \cup {Append(q, x) : q \in {r \in shorter : Len(r) = n - 1},
                                          x \in S}

\* lay the chosen words out on the time axis, in order
RECURSIVE LayOut(_, _, _)
LayOut(choices, t, unit) ==
    IF choices = <<>> THEN <<>>
    ELSE LET c == Head(choices)
             start == t + unit * c[2][1]
             end == start + unit * c[2][2]
         IN <<[word |-> c[1], start |-> start, end |-> end]>>
            \o LayOut(Tail(choices), end, unit)

TimingLists ==
    {LayOut(ch, 0, TicksPerSecond) :
        ch \in SeqsUpTo(TimingWords \X TimingShapes, MaxTimings)}

\* the same in half seconds, for the rhythmic generator: short words, and a
\* long silence that carries the list past the hook phase
RhythmShapes == {<<0, 1>>, <<1, 1>>, <<10, 3>>}

RhythmTimingLists ==
    {LayOut(ch, 0, TicksPerSecond \div 2) :
        ch \in SeqsUpTo(TimingWords \X RhythmShapes, MaxTimings)}

LastEnd(wt) == IF wt = <<>> THEN 0 ELSE wt[Len(wt)].end

NoScript == [hook |-> <<>>, has_body |-> FALSE, body |-> <<>>,
             has_segments |-> FALSE, segments |-> <<>>]

SegmentScripts ==
    {[NoScript EXCEPT !.has_segments = TRUE, !.segments = s] :
        s \in SeqsUpTo(SegTexts, MaxSegs)} \cup {NoScript}

-----------------------------------------------------------------------------
(* create_semantic_scenes as a state machine *)

InitSemantic ==
    /\ script_data \in SegmentScripts
    /\ word_timings \in TimingLists
    /\ total_duration = LastEnd(word_timings)
    /\ pc = "sem_entry"
    /\ timing_file = <<>>
    /\ use_exact = TRUE
    /\ fixed_duration = 0
    /\ segment_idx = 0
    /\ word_index = 0
    /\ base_scenes = <<>>
    /\ scenes = <<>>
    /\ result = "running"
    /\ current_time = 0
    /\ scene_start_time = 0
    /\ current_scene_words = <<>>
    /\ strategy = <<>>
    /\ searchIdle
    /\ assignIdle
    /\ processIdle
    /\ clipIdle

semInputs == <<script_data, word_timings, total_duration, timing_file,
               use_exact, fixed_duration, current_time, scene_start_time,
               current_scene_words, strategy, searchVars,
               assignVars, processVars, clipVars>>

\* the two guards at the top: no timings, or no segments
SemEntry ==
    /\ pc = "sem_entry"
    /\ IF word_timings = <<>>
          \/ ~script_data.has_segments
          \/ Len(script_data.segments) = 0
       THEN pc' = "done" /\ result' = "none"
       ELSE pc' = "sem_match" /\ result' = result
    /\ UNCHANGED <<semInputs, segment_idx, word_index, base_scenes, scenes>>

\* one iteration of the for loop over the segments
SemMatchSegment ==
    /\ pc = "sem_match"
    /\ segment_idx < Len(script_data.segments)
    /\ LET r == MatchSegment(word_timings, script_data.segments,
                             segment_idx, word_index)
       IN /\ word_index' = r.word_index
          /\ base_scenes' = base_scenes \o r.appended
    /\ segment_idx' = segment_idx + 1
    /\ UNCHANGED <<semInputs, pc, scenes, result>>

\* after the loop: None when no segment matched, else on to sub-cutting
SemAfterMatch ==
    /\ pc = "sem_match"
    /\ segment_idx = Len(script_data.segments)
    /\ IF Len(base_scenes) = 0
       THEN pc' = "done" /\ result' = "none"
       ELSE pc' = "sem_split" /\ result' = result
    /\ segment_idx' = 0
    /\ UNCHANGED <<semInputs, word_index, base_scenes, scenes>>

\* one iteration of the loop over base_scenes
SemSplitScene ==
    /\ pc = "sem_split"
    /\ segment_idx < Len(base_scenes)
    /\ scenes' = scenes \o SplitScene(base_scenes[segment_idx + 1],
                                      Sec(MAX_SCENE_DURATION))
    /\ segment_idx' = segment_idx + 1
    /\ UNCHANGED <<semInputs, pc, word_index, base_scenes, result>>

SemReturn ==
    /\ pc = "sem_split"
    /\ segment_idx = Len(base_scenes)
    /\ pc' = "done"
    /\ result' = "scenes"
    /\ UNCHANGED <<semInputs, segment_idx, word_index, base_scenes, scenes>>

NextSemantic ==
    \/ SemEntry
    \/ SemMatchSegment
    \/ SemAfterMatch
    \/ SemSplitScene
    \/ SemReturn

SpecSemantic == InitSemantic /\ [][NextSemantic]_vars

-----------------------------------------------------------------------------
(* Properties of create_semantic_scenes *)

RECURSIVE SumDurations(_)
SumDurations(ss) ==
    IF ss = <<>> THEN 0 ELSE Head(ss).duration + SumDurations(Tail(ss))

Contiguous(ss) ==
    \A k \in 2..Len(ss) : ss[k].start_time = ss[k - 1].end_time

SemReturned == pc = "done" /\ result = "scenes" /\ strategy = <<>>

\* every segment of the script has its base scene
EverySegmentMatched ==
    /\ script_data.has_segments
    /\ Len(base_scenes) = Len(script_data.segments)

\* the scenes of the result that come from base scene b, in order
ScenesOf(b) == SelectSeq(scenes, LAMBDA s : s.segment_index = b.segment_index)

IsCeil(n, d, m) == n * m >= d /\ (n - 1) * m < d

\* C1: when every segment is fully matched, the returned scenes are
\* contiguous (each starts where the previous one ends) and their durations
\* sum to the total audio duration.
C1_FullMatchPartitionsAudio ==
    (SemReturned /\ EverySegmentMatched) =>
        /\ Contiguous(scenes)
        /\ SumDurations(scenes) = total_duration

C3_SubcutFieldsAndUntouched ==
    SemReturned =>
        /\ \A j \in 1..Len(scenes) :
              \E k \in 1..Len(base_scenes) :
                  base_scenes[k].segment_index = scenes[j].segment_index
        /\ \A k \in 1..Len(base_scenes) :
              LET b == base_scenes[k]
                  subs == ScenesOf(b)
              IN IF b.duration > Sec(MAX_SCENE_DURATION)
                 THEN \A i \in 1..Len(subs) :
                         /\ subs[i].segment_index = b.segment_index
                         /\ subs[i].text = b.text
                         /\ subs[i].is_subcut = TRUE
                         /\ subs[i].subcut_index = i - 1
                         /\ subs[i].total_subcuts = Len(subs)
                 ELSE /\ Len(subs) = 1
                      /\ subs[1].start_time = b.start_time
                      /\ subs[1].end_time = b.end_time
                      /\ subs[1].duration = b.duration
                      /\ subs[1].text = b.text
                      /\ subs[1].segment_index = b.segment_index
                      /\ subs[1].is_subcut = FALSE

\* segment 0 untouched, segment 1 cut in two
C3_Witness ==
    /\ SemReturned
    /\ Len(base_scenes) = 2
    /\ Len(scenes) = 3
    /\ scenes[1].is_subcut = FALSE
    /\ scenes[2].is_subcut /\ scenes[3].is_subcut
    /\ scenes[3].subcut_index = 1

-----------------------------------------------------------------------------
(* create_fixed_duration_scenes as a state machine *)

Min(a, b) == IF a < b THEN a ELSE b
Max(a, b) == IF a > b THEN a ELSE b

\* a missing clamp: the window is never cut at the end of the audio
FixedEnd_NoClamp(t, window, total) == t + window

\* end_time = min(current_time + fixed_duration, total_duration)
FixedEnd(t, window, total) == Min(t + window, total)

FixedScene(t, window, total, scene_index) ==
    LET end_time == FixedEnd(t, window, total)
    IN [start_time |-> t, end_time |-> end_time,
        duration |-> end_time - t, text |-> <<"Scene", scene_index>>]

InitFixed ==
    /\ total_duration \in 0..MaxFixedTotal
    /\ fixed_duration \in 1..MaxFixedWindow
    /\ pc = "fixed_loop"
    /\ script_data = NoScript
    /\ word_timings = <<>>
    /\ timing_file = <<>>
    /\ use_exact = FALSE
    /\ segment_idx = 0
    /\ word_index = 0
    /\ base_scenes = <<>>
    /\ scenes = <<>>
    /\ result = "running"
    /\ current_time = 0
    /\ scene_start_time = 0
    /\ current_scene_words = <<>>
    /\ strategy = <<>>
    /\ searchIdle
    /\ assignIdle
    /\ processIdle
    /\ clipIdle

fixedUnch == <<script_data, word_timings, timing_file, use_exact,
               total_duration, fixed_duration, segment_idx, word_index,
               base_scenes, scene_start_time, current_scene_words, strategy, searchVars,
               assignVars, processVars, clipVars>>

\* one iteration of the while loop
FixedStep ==
    /\ pc = "fixed_loop"
    /\ current_time < total_duration
    /\ LET sc == FixedScene(current_time, fixed_duration, total_duration,
                            Len(scenes) + 1)
       IN /\ scenes' = Append(scenes, sc)
          /\ current_time' = sc.end_time
    /\ UNCHANGED <<fixedUnch, pc, result>>

FixedReturn ==
    /\ pc = "fixed_loop"
    /\ ~(current_time < total_duration)
    /\ pc' = "done"
    /\ result' = "scenes"
    /\ UNCHANGED <<fixedUnch, scenes, current_time>>

NextFixed == FixedStep \/ FixedReturn

SpecFixed == InitFixed /\ [][NextFixed]_vars

FixedReturned == pc = "done" /\ result = "scenes" /\ strategy = <<>>

\* C4: for T > 0 and w > 0 the fixed generator returns exactly ceil(T/w)
\* scenes that start at 0, are pairwise contiguous and end at T; every scene
\* lasts w except possibly the last, which lasts more than 0 and at most w.
C4_FixedSlicesCoverAudio ==
    (FixedReturned /\ total_duration > 0 /\ fixed_duration > 0) =>
        /\ IsCeil(Len(scenes), total_duration, fixed_duration)
        /\ scenes[1].start_time = 0
        /\ Contiguous(scenes)
        /\ scenes[Len(scenes)].end_time = total_duration
        /\ \A k \in 1..Len(scenes) - 1 : scenes[k].duration = fixed_duration
        /\ scenes[Len(scenes)].duration > 0
        /\ scenes[Len(scenes)].duration =< fixed_duration

\* three scenes, the last one shorter than the window
C4_Witness ==
    /\ FixedReturned
    /\ Len(scenes) = 3
    /\ scenes[3].duration < fixed_duration
    /\ scenes[3].end_time = total_duration

-----------------------------------------------------------------------------
(* create_rhythmic_scenes as a state machine *)

HOOK_PHASE_END == 5   \* seconds: words starting before it are in the hook
HOOK_MAX_DURATION == 1
BODY_MAX_DURATION == 2

\* 1.0 if word_data['start'] < 5.0 else 2.0
CurrentMaxDuration(word_data) ==
    IF word_data.start < Sec(HOOK_PHASE_END)
    THEN Sec(HOOK_MAX_DURATION) ELSE Sec(BODY_MAX_DURATION)

ShouldCut(wt, i, start_of_scene) ==
    LET word_data == wt[i + 1]
        should_cut_duration ==
            word_data.end - start_of_scene >= CurrentMaxDuration(word_data)
        is_sentence_end == EndsSentence(word_data.word)
        is_last_word == (i = Len(wt) - 1)
    IN should_cut_duration \/ is_sentence_end \/ is_last_word

\* the body of the for loop for word i (0-based) on the loop's variables
RhythmicStep(wt, i, st) ==
    LET word_data == wt[i + 1]
        words == st.current_scene_words \o word_data.word
    IN IF ShouldCut(wt, i, st.scene_start_time)
       THEN [scenes |-> Append(st.scenes,
                           [start_time |-> st.scene_start_time,
                            end_time |-> word_data.end,
                            duration |-> word_data.end - st.scene_start_time,
                            text |-> words]),
             current_scene_words |-> <<>>,
             scene_start_time |-> IF i < Len(wt) - 1 THEN wt[i + 2].start
                                  ELSE st.scene_start_time]
       ELSE [scenes |-> st.scenes,
             current_scene_words |-> words,
             scene_start_time |-> st.scene_start_time]

InitRhythmic ==
    /\ word_timings \in RhythmTimingLists
    /\ total_duration = LastEnd(word_timings)
    /\ pc = "rh_entry"
    /\ script_data = NoScript
    /\ timing_file = <<>>
    /\ use_exact = TRUE
    /\ fixed_duration = 0
    /\ segment_idx = 0
    /\ word_index = 0
    /\ base_scenes = <<>>
    /\ scenes = <<>>
    /\ result = "running"
    /\ current_time = 0
    /\ scene_start_time = 0
    /\ current_scene_words = <<>>
    /\ strategy = <<>>
    /\ searchIdle
    /\ assignIdle
    /\ processIdle
    /\ clipIdle

rhUnch == <<script_data, word_timings, timing_file, use_exact,
            total_duration, fixed_duration, word_index, base_scenes,
            current_time, strategy, searchVars,
               assignVars, processVars, clipVars>>

\* the guard at the top, and the initialisation of the loop
RhythmicEntry ==
    /\ pc = "rh_entry"
    /\ IF word_timings = <<>>
       THEN /\ pc' = "done"
            /\ result' = "none"
            /\ UNCHANGED scene_start_time
       ELSE /\ pc' = "rh_loop"
            /\ result' = result
            /\ scene_start_time' = word_timings[1].start
    /\ UNCHANGED <<rhUnch, segment_idx, scenes, current_scene_words>>

\* one iteration of the for loop over the words
RhythmicWord ==
    /\ pc = "rh_loop"
    /\ segment_idx < Len(word_timings)
    /\ LET st == RhythmicStep(word_timings, segment_idx,
                              [scenes |-> scenes,
                               current_scene_words |-> current_scene_words,
                               scene_start_time |-> scene_start_time])
       IN /\ scenes' = st.scenes
          /\ current_scene_words' = st.current_scene_words
          /\ scene_start_time' = st.scene_start_time
    /\ segment_idx' = segment_idx + 1
    /\ UNCHANGED <<rhUnch, pc, result>>

RhythmicReturn ==
    /\ pc = "rh_loop"
    /\ segment_idx = Len(word_timings)
    /\ pc' = "done"
    /\ result' = "scenes"
    /\ UNCHANGED <<rhUnch, segment_idx, scenes, scene_start_time,
                   current_scene_words>>

NextRhythmic == RhythmicEntry \/ RhythmicWord \/ RhythmicReturn

SpecRhythmic == InitRhythmic /\ [][NextRhythmic]_vars

RhythmicReturned == pc = "done" /\ result = "scenes" /\ strategy = <<>>

\* C5: for a non-empty timing list the rhythmic scenes cover
\* [0, total_duration] in full: the first starts at 0, each later one starts
\* where the previous one ends, and the last ends at total_duration.
C5_RhythmicCoversAudio ==
    (RhythmicReturned /\ word_timings # <<>>) =>
        /\ scenes # <<>>
        /\ scenes[1].start_time = 0
        /\ Contiguous(scenes)
        /\ scenes[Len(scenes)].end_time = total_duration

-----------------------------------------------------------------------------
(* The three generators as functions of their arguments, as a caller sees  *)
(* them: the loops above, run to their end.                                *)

RECURSIVE SemanticBase(_, _, _, _)
SemanticBase(wt, segs, idx, wi) ==
    IF idx = Len(segs) THEN <<>>
    ELSE LET r == MatchSegment(wt, segs, idx, wi)
         IN r.appended \o SemanticBase(wt, segs, idx + 1, r.word_index)

RECURSIVE SplitAll(_, _)
SplitAll(base, max_scene_duration) ==
    IF base = <<>> THEN <<>>
    ELSE SplitScene(Head(base), max_scene_duration)
         \o SplitAll(Tail(base), max_scene_duration)

NoneResult == [none |-> TRUE, base |-> <<>>, scenes |-> <<>>]

create_semantic_scenes(sd, wt, max_scene_duration) ==
    IF wt = <<>> \/ ~sd.has_segments \/ Len(sd.segments) = 0
    THEN NoneResult
    ELSE LET base == SemanticBase(wt, sd.segments, 0, 0)
         IN IF Len(base) = 0 THEN NoneResult
            ELSE [none |-> FALSE, base |-> base,
                  scenes |-> SplitAll(base, max_scene_duration)]

RECURSIVE RhythmicRun(_, _, _)
RhythmicRun(wt, i, st) ==
    IF i = Len(wt) THEN st.scenes
    ELSE RhythmicRun(wt, i + 1, RhythmicStep(wt, i, st))

create_rhythmic_scenes(wt) ==
    IF wt = <<>> THEN NoneResult
    ELSE [none |-> FALSE, base |-> <<>>,
          scenes |-> RhythmicRun(wt, 0,
                        [scenes |-> <<>>, current_scene_words |-> <<>>,
                         scene_start_time |-> wt[1].start])]

RECURSIVE FixedRun(_, _, _, _)
FixedRun(t, window, total, acc) ==
    IF t < total
    THEN LET sc == FixedScene(t, window, total, Len(acc) + 1)
         IN FixedRun(sc.end_time, window, total, Append(acc, sc))
    ELSE acc

create_fixed_duration_scenes(total, window) == FixedRun(0, window, total, <<>>)

-----------------------------------------------------------------------------
(* get_smart_timings: timings estimated from the character counts *)

RECURSIVE TotalChars(_)
TotalChars(words) ==
    IF words = <<>> THEN 0 ELSE Len(Head(words)) + TotalChars(Tail(words))

\* the seconds the program writes as 0.5, 0.1, 0.15 and 0.3, in ticks
HalfSecond == TicksPerSecond \div 2
TenthSecond == TicksPerSecond \div 10
CommaPause == (3 * TicksPerSecond) \div 20
SentencePause == (3 * TicksPerSecond) \div 10

LastChar(w) == IF w = <<>> THEN "" ELSE w[Len(w)]

\* the duration of one chunk; chunk_len * time_per_char is cut to a tick
ChunkDuration(chunk_words, audio_duration, total_chars) ==
    LET raw == (TotalChars(chunk_words) * (audio_duration - HalfSecond))
                   \div total_chars
        base == IF raw < HalfSecond THEN HalfSecond ELSE raw
        last == LastChar(chunk_words[Len(chunk_words)])
    IN IF last = "," THEN base + CommaPause
       ELSE IF last \in {".", "?", "!"} THEN base + SentencePause
       ELSE base

RECURSIVE SmartChunks(_, _, _, _)
SmartChunks(words, t, audio_duration, total_chars) ==
    IF words = <<>> THEN <<>>
    ELSE LET n == Min(2, Len(words))
             chunk_words == SubSeq(words, 1, n)
             duration == ChunkDuration(chunk_words, audio_duration, total_chars)
         IN <<[word |-> chunk_words, start |-> t, end |-> t + duration]>>
            \o SmartChunks(SubSeq(words, n + 1, Len(words)), t + duration,
                           audio_duration, total_chars)

get_smart_timings(sd, audio_duration) ==
    LET words == sd.hook \o sd.body
        total_chars == IF TotalChars(words) = 0 THEN 1 ELSE TotalChars(words)
    IN SmartChunks(words, TenthSecond, audio_duration, total_chars)

-----------------------------------------------------------------------------
(* stitch_and_edit_video, "TIMING LOGIC" and "VISUALS": how the scene list *)
(* handed to assign_clips_to_scenes is built                               *)

FIXED_WINDOW == 2   \* create_fixed_duration_scenes(..., fixed_duration=2.0)

Bodies == {<<>>, <<WB, WADot>>}

StitchScripts ==
    {[hook |-> h, has_body |-> hb, body |-> IF hb THEN b ELSE <<>>,
      has_segments |-> hs, segments |-> IF hs THEN sg ELSE <<>>] :
        h \in {<<>>, <<WA>>}, hb \in BOOLEAN, b \in Bodies,
        hs \in BOOLEAN, sg \in SeqsUpTo(SegTexts, MaxSegs)}

StitchTimingFiles == {wt \in TimingLists : Len(wt) =< MaxStitchTimings}

\* audio durations of the runs that have no timing data
StitchDurations == {Sec(1), Sec(5)}

InitStitch ==
    /\ script_data \in StitchScripts
    /\ timing_file \in StitchTimingFiles
    /\ total_duration \in IF timing_file = <<>> THEN StitchDurations
                          ELSE {LastEnd(timing_file)}
    /\ pc = "st_load"
    /\ word_timings = <<>>
    /\ use_exact = FALSE
    /\ fixed_duration = 0
    /\ segment_idx = 0
    /\ word_index = 0
    /\ base_scenes = <<>>
    /\ scenes = <<>>
    /\ result = "running"
    /\ current_time = 0
    /\ scene_start_time = 0
    /\ current_scene_words = <<>>
    /\ strategy = <<>>
    /\ searchIdle
    /\ assignIdle
    /\ processIdle
    /\ clipIdle

stUnch == <<script_data, timing_file, total_duration, fixed_duration,
            segment_idx, word_index, current_time, scene_start_time,
            current_scene_words, searchVars,
               assignVars, processVars, clipVars>>

\* lines 842-861: the timing file, or the estimate from the script, which
\* reads script_data['body'] and raises KeyError on a script without it
StLoadTimings ==
    /\ pc = "st_load"
    /\ IF Len(timing_file) > 0
       THEN /\ word_timings' = timing_file
            /\ use_exact' = TRUE
            /\ pc' = "st_semantic"
            /\ result' = result
       ELSE IF script_data.has_body
       THEN /\ word_timings' = get_smart_timings(script_data, total_duration)
            /\ use_exact' = FALSE
            /\ pc' = "st_semantic"
            /\ result' = result
       ELSE /\ pc' = "done"
            /\ result' = "raised"
            /\ UNCHANGED <<word_timings, use_exact>>
    /\ UNCHANGED <<stUnch, base_scenes, scenes, strategy>>

\* line 867
StSemantic ==
    /\ pc = "st_semantic"
    /\ LET r == create_semantic_scenes(script_data, word_timings,
                                       Sec(MAX_SCENE_DURATION))
       IN /\ scenes' = r.scenes
          /\ base_scenes' = r.base
          /\ result' = IF r.none THEN "none" ELSE "scenes"
    /\ strategy' = Append(strategy, "semantic")
    /\ pc' = "st_fallback1"
    /\ UNCHANGED <<stUnch, word_timings, use_exact>>

\* the caller's test of the aligner's answer (line 870)
AlignmentFailed(res, base) == res = "none"

\* lines 870-872
StFallback1 ==
    /\ pc = "st_fallback1"
    /\ IF AlignmentFailed(result, base_scenes) /\ word_timings # <<>>
       THEN LET r == create_rhythmic_scenes(word_timings)
            IN /\ scenes' = r.scenes
               /\ result' = IF r.none THEN "none" ELSE "scenes"
               /\ strategy' = Append(strategy, "rhythmic")
       ELSE UNCHANGED <<scenes, result, strategy>>
    /\ pc' = "st_fallback2"
    /\ UNCHANGED <<stUnch, word_timings, use_exact, base_scenes>>

\* lines 875-880: the list is then handed to assign_clips_to_scenes
StFallback2 ==
    /\ pc = "st_fallback2"
    /\ IF result = "none"
       THEN /\ scenes' = create_fixed_duration_scenes(total_duration,
                                                      Sec(FIXED_WINDOW))
            /\ result' = "scenes"
            /\ strategy' = Append(strategy, "fixed")
       ELSE UNCHANGED <<scenes, result, strategy>>
    /\ pc' = "done"
    /\ UNCHANGED <<stUnch, word_timings, use_exact, base_scenes>>

NextStitch == StLoadTimings \/ StSemantic \/ StFallback1 \/ StFallback2

SpecStitch == InitStitch /\ [][NextStitch]_vars

\* the scene list is built (or building it raised)
StDone == pc = "done" /\ (strategy # <<>> \/ result = "raised")

\* the generator whose scenes are used: the last one called
Producer == IF strategy = <<>> THEN "nobody" ELSE strategy[Len(strategy)]

\* what the aligner answered for this run's script and timings
AlignerReportedFailure ==
    create_semantic_scenes(script_data, word_timings,
                           Sec(MAX_SCENE_DURATION)).none

\* C6: the strategy follows the data: no TTS timing data -> fixed-interval
\* generator; timing data but alignment failed -> rhythmic generator; the
\* aligned scenes are used only when alignment succeeded.
C6_StrategyByDataAvailability ==
    (StDone /\ result = "scenes") =>
        /\ (timing_file = <<>> => Producer = "fixed")
        /\ (timing_file # <<>> /\ AlignerReportedFailure
                => Producer = "rhythmic")
        /\ (Producer = "semantic" => ~AlignerReportedFailure)

\* segments that have words to match
RECURSIVE CountWithWords(_)
CountWithWords(segs) ==
    IF segs = <<>> THEN 0
    ELSE (IF normalize(Head(segs)) = <<>> THEN 0 ELSE 1)
         + CountWithWords(Tail(segs))

PartialMatch ==
    /\ Len(base_scenes) > 0
    /\ Len(base_scenes) < CountWithWords(script_data.segments)

\* C7: when some but not all segments match, the caller treats the
\* incomplete list as an alignment failure and builds the scenes with a
\* fallback generator; the aligner itself reports failure only when zero
\* segments match.
C7_PartialAlignmentFallsBack ==
    (StDone /\ result # "raised") =>
        /\ (PartialMatch => Producer \in {"rhythmic", "fixed"})
        /\ (AlignerReportedFailure <=> Len(base_scenes) = 0)

-----------------------------------------------------------------------------
(* Query text: a query, a keyword or a file name is the sequence of its    *)
(* characters, so that Python's substring test, the \b...\b regular        *)
(* expressions and str.replace are computed character by character.        *)

\* s[k .. k+Len(t)-1] = t, k counted from 1
OccursAt(s, t, k) ==
    /\ k >= 1
    /\ k + Len(t) - 1 =< Len(s)
    /\ SubSeq(s, k, k + Len(t) - 1) = t

\* Python: t in s
In(t, s) == \E k \in 1..(Len(s) - Len(t) + 1) : OccursAt(s, t, k)

\* the characters the regular expression class \w matches
WordChars ==
    {"a", "b", "c", "d", "e", "f", "g", "h", "i", "j", "k", "l", "m", "n",
     "o", "p", "q", "r", "s", "t", "u", "v", "w", "x", "y", "z", "A", "B",
     "0", "1", "2", "3", "4", "5", "6", "7", "8", "9", "_"}

\* \b between s[p] and s[p+1]; p = 0 and p = Len(s) are the two ends
WordBoundary(s, p) ==
    (p >= 1 /\ s[p] \in WordChars) # (p < Len(s) /\ s[p + 1] \in WordChars)

\* re.search(r'\b' + re.escape(t) + r'\b', s)
SearchWholeWord(t, s) ==
    \E k \in 1..(Len(s) - Len(t) + 1) :
        /\ OccursAt(s, t, k)
        /\ WordBoundary(s, k - 1)
        /\ WordBoundary(s, k + Len(t) - 1)

\* Python: s.replace(old, new), old not empty: left to right, the
\* occurrences replaced do not overlap
RECURSIVE Replace(_, _, _)
Replace(s, old, new) ==
    IF s = <<>> THEN <<>>
    ELSE IF OccursAt(s, old, 1)
         THEN new \o Replace(SubSeq(s, Len(old) + 1, Len(s)), old, new)
         ELSE <<Head(s)>> \o Replace(Tail(s), old, new)

\* Python: " ".join(s.split())
RECURSIVE SplitJoin(_, _)
SplitJoin(s, pending_space) ==
    IF s = <<>> THEN <<>>
    ELSE IF Head(s) = " " THEN SplitJoin(Tail(s), TRUE)
    ELSE (IF pending_space THEN <<" ">> ELSE <<>>) \o <<Head(s)>>
         \o SplitJoin(Tail(s), FALSE)

JoinSplit(s) ==
    LET first == CHOOSE k \in 1..(Len(s) + 1) :
                    /\ \A j \in 1..(k - 1) : s[j] = " "
                    /\ (k = Len(s) + 1 \/ s[k] # " ")
    IN SplitJoin(SubSeq(s, first, Len(s)), FALSE)

-----------------------------------------------------------------------------
(* video_downloader.py and config.py: the keyword tables and link lists *)

WEAK_VISUAL_TERMS == <<
    <<"o", "c", "e", "a", "n">>,   \* ocean
    <<"s", "e", "a">>,   \* sea
    <<"w", "a", "t", "e", "r">>,   \* water
    <<"r", "i", "v", "e", "r">>,   \* river
    <<"l", "a", "k", "e">>,   \* lake
    <<"b", "e", "a", "c", "h">>,   \* beach
    <<"s", "a", "n", "d">>,   \* sand
    <<"f", "o", "r", "e", "s", "t">>,   \* forest
    <<"t", "r", "e", "e">>,   \* tree
    <<"w", "o", "o", "d">>,   \* wood
    <<"n", "a", "t", "u", "r", "e">>,   \* nature
    <<"f", "l", "o", "w", "e", "r">>,   \* flower
    <<"g", "a", "r", "d", "e", "n">>,   \* garden
    <<"g", "r", "a", "s", "s">>,   \* grass
    <<"f", "i", "e", "l", "d">>,   \* field
    <<"m", "o", "u", "n", "t", "a", "i", "n">>,   \* mountain
    <<"h", "i", "l", "l">>,   \* hill
    <<"c", "l", "i", "f", "f">>,   \* cliff
    <<"s", "k", "y">>,   \* sky
    <<"c", "l", "o", "u", "d">>,   \* cloud
    <<"s", "u", "n">>,   \* sun
    <<"s", "u", "n", "r", "i", "s", "e">>,   \* sunrise
    <<"s", "u", "n", "s", "e", "t">>,   \* sunset
    <<"s", "i", "t", "t", "i", "n", "g">>,   \* sitting
    <<"s", "t", "a", "n", "d", "i", "n", "g">>,   \* standing
    <<"t", "h", "i", "n", "k", "i", "n", "g">>,   \* thinking
    <<"w", "a", "l", "k", "i", "n", "g", " ", "a", "l", "o", "n", "e">>,   \* walking alone
    <<"l", "o", "o", "k", "i", "n", "g">>,   \* looking
    <<"d", "e", "p", "r", "e", "s", "s", "e", "d">>,   \* depressed
    <<"s", "a", "d">>,   \* sad
    <<"l", "o", "n", "e", "l", "y">>,   \* lonely
    <<"c", "h", "a", "i", "r">>,   \* chair
    <<"b", "e", "n", "c", "h">>,   \* bench
    <<"b", "e", "d">>,   \* bed
    <<"s", "l", "e", "e", "p", "i", "n", "g">>,   \* sleeping
    <<"r", "o", "o", "m">>,   \* room
    <<"w", "a", "l", "l">>,   \* wall
    <<"w", "i", "n", "d", "o", "w">>,   \* window
    <<"r", "e", "a", "d", "i", "n", "g">>,   \* reading
    <<"w", "r", "i", "t", "i", "n", "g">>,   \* writing
    <<"p", "a", "p", "e", "r">>   \* paper
>>

STOIC_EXCEPTIONS == <<
    <<"s", "t", "a", "t", "u", "e">>,   \* statue
    <<"m", "a", "r", "b", "l", "e">>,   \* marble
    <<"s", "c", "u", "l", "p", "t", "u", "r", "e">>,   \* sculpture
    <<"b", "u", "s", "t">>,   \* bust
    <<"c", "h", "e", "s", "s">>,   \* chess
    <<"k", "i", "n", "g">>,   \* king
    <<"q", "u", "e", "e", "n">>,   \* queen
    <<"r", "o", "o", "k">>,   \* rook
    <<"l", "i", "o", "n">>,   \* lion
    <<"w", "o", "l", "f">>,   \* wolf
    <<"e", "a", "g", "l", "e">>,   \* eagle
    <<"t", "i", "g", "e", "r">>,   \* tiger
    <<"p", "a", "n", "t", "h", "e", "r">>,   \* panther
    <<"h", "o", "u", "r", "g", "l", "a", "s", "s">>,   \* hourglass
    <<"s", "k", "u", "l", "l">>   \* skull
>>

CARS_KEYWORDS == <<
    <<"c", "a", "r">>,   \* car
    <<"d", "r", "i", "v", "e">>,   \* drive
    <<"s", "p", "e", "e", "d">>,   \* speed
    <<"s", "u", "p", "e", "r", "c", "a", "r">>,   \* supercar
    <<"f", "e", "r", "r", "a", "r", "i">>,   \* ferrari
    <<"l", "a", "m", "b", "o", "r", "g", "h", "i", "n", "i">>,   \* lamborghini
    <<"p", "o", "r", "s", "c", "h", "e">>,   \* porsche
    <<"m", "c", "l", "a", "r", "e", "n">>,   \* mclaren
    <<"b", "u", "g", "a", "t", "t", "i">>,   \* bugatti
    <<"d", "r", "i", "f", "t">>,   \* drift
    <<"r", "a", "c", "i", "n", "g">>,   \* racing
    <<"t", "u", "n", "n", "e", "l">>,   \* tunnel
    <<"h", "i", "g", "h", "w", "a", "y">>   \* highway
>>

COMBAT_KEYWORDS == <<
    <<"f", "i", "g", "h", "t">>,   \* fight
    <<"b", "o", "x">>,   \* box
    <<"p", "u", "n", "c", "h">>,   \* punch
    <<"c", "o", "m", "b", "a", "t">>,   \* combat
    <<"m", "m", "a">>,   \* mma
    <<"k", "i", "c", "k", "b", "o", "x">>,   \* kickbox
    <<"s", "p", "a", "r">>,   \* spar
    <<"h", "e", "a", "v", "y", " ", "b", "a", "g">>,   \* heavy bag
    <<"c", "a", "g", "e">>,   \* cage
    <<"r", "i", "n", "g">>,   \* ring
    <<"f", "i", "g", "h", "t", "e", "r">>   \* fighter
>>

GYM_KEYWORDS == <<
    <<"g", "y", "m">>,   \* gym
    <<"t", "r", "a", "i", "n">>,   \* train
    <<"m", "u", "s", "c", "l", "e">>,   \* muscle
    <<"c", "a", "l", "i", "s", "t", "h", "e", "n", "i", "c", "s">>,   \* calisthenics
    <<"w", "o", "r", "k", "o", "u", "t">>,   \* workout
    <<"p", "u", "l", "l", "u", "p">>,   \* pullup
    <<"p", "u", "s", "h", "u", "p">>,   \* pushup
    <<"p", "u", "l", "l", " ", "u", "p">>,   \* pull up
    <<"p", "u", "s", "h", " ", "u", "p">>,   \* push up
    <<"b", "o", "d", "y", "w", "e", "i", "g", "h", "t">>,   \* bodyweight
    <<"s", "t", "r", "e", "e", "t", " ", "w", "o", "r", "k", "o", "u", "t">>   \* street workout
>>

STOIC_KEYWORDS == <<
    <<"s", "t", "a", "t", "u", "e">>,   \* statue
    <<"m", "a", "r", "b", "l", "e">>,   \* marble
    <<"s", "c", "u", "l", "p", "t", "u", "r", "e">>,   \* sculpture
    <<"b", "u", "s", "t">>,   \* bust
    <<"a", "n", "c", "i", "e", "n", "t">>,   \* ancient
    <<"r", "o", "m", "e">>,   \* rome
    <<"r", "o", "m", "a", "n">>,   \* roman
    <<"g", "r", "e", "e", "c", "e">>,   \* greece
    <<"g", "r", "e", "e", "k">>,   \* greek
    <<"p", "h", "i", "l", "o", "s", "o", "p", "h", "y">>,   \* philosophy
    <<"s", "t", "o", "i", "c">>,   \* stoic
    <<"t", "e", "m", "p", "l", "e">>,   \* temple
    <<"c", "o", "l", "u", "m", "n">>,   \* column
    <<"r", "u", "i", "n", "s">>   \* ruins
>>

LUXURY_KEYWORDS == <<
    <<"m", "o", "n", "e", "y">>,   \* money
    <<"r", "i", "c", "h">>,   \* rich
    <<"y", "a", "c", "h", "t">>,   \* yacht
    <<"v", "i", "l", "l", "a">>,   \* villa
    <<"j", "e", "t">>,   \* jet
    <<"l", "u", "x", "u", "r", "y">>,   \* luxury
    <<"w", "e", "a", "l", "t", "h">>,   \* wealth
    <<"c", "a", "s", "h">>,   \* cash
    <<"m", "a", "n", "s", "i", "o", "n">>,   \* mansion
    <<"p", "e", "n", "t", "h", "o", "u", "s", "e">>,   \* penthouse
    <<"p", "r", "i", "v", "a", "t", "e">>,   \* private
    <<"c", "h", "a", "m", "p", "a", "g", "n", "e">>   \* champagne
>>

remove_words == <<
    <<"4", "k">>,   \* 4k
    <<"8", "k">>,   \* 8k
    <<"u", "l", "t", "r", "a", " ", "h", "d">>,   \* ultra hd
    <<"h", "d">>,   \* hd
    <<"6", "0", "f", "p", "s">>,   \* 60fps
    <<"d", "e", "t", "a", "i", "l", "e", "d">>,   \* detailed
    <<"r", "e", "a", "l", "i", "s", "t", "i", "c">>,   \* realistic
    <<"p", "h", "o", "t", "o", "r", "e", "a", "l", "i", "s", "t", "i", "c">>,   \* photorealistic
    <<"s", "h", "o", "t">>,   \* shot
    <<"a", "n", "g", "l", "e">>,   \* angle
    <<"v", "i", "e", "w">>,   \* view
    <<"c", "a", "m", "e", "r", "a">>,   \* camera
    <<"l", "e", "n", "s">>   \* lens
>>

replacements == <<
    <<<<"f", "e", "r", "r", "a", "r", "i">>,
      <<"s", "u", "p", "e", "r", "c", "a", "r">>>>,   \* ferrari -> supercar
    <<<<"l", "a", "m", "b", "o", "r", "g", "h", "i", "n", "i">>,
      <<"s", "u", "p", "e", "r", "c", "a", "r">>>>,   \* lamborghini -> supercar
    <<<<"p", "o", "r", "s", "c", "h", "e">>,
      <<"s", "p", "o", "r", "t", "s", "c", "a", "r">>>>,   \* porsche -> sportscar
    <<<<"m", "c", "l", "a", "r", "e", "n">>,
      <<"s", "u", "p", "e", "r", "c", "a", "r">>>>,   \* mclaren -> supercar
    <<<<"m", "u", "a", "y", " ", "t", "h", "a", "i">>,
      <<"k", "i", "c", "k", "b", "o", "x", "i", "n", "g">>>>,   \* muay thai -> kickboxing
    <<<<"m", "m", "a">>,
      <<"m", "i", "x", "e", "d", " ", "m", "a", "r", "t", "i", "a", "l", " ", "a", "r", "t", "s">>>>,   \* mma -> mixed martial arts
    <<<<"c", "a", "l", "i", "s", "t", "h", "e", "n", "i", "c", "s">>,
      <<"s", "t", "r", "e", "e", "t", " ", "w", "o", "r", "k", "o", "u", "t">>>>,   \* calisthenics -> street workout
    <<<<"m", "o", "n", "e", "y">>,
      <<"m", "o", "n", "e", "y", " ", "c", "a", "s", "h", " ", "l", "u", "x", "u", "r", "y">>>>,   \* money -> money cash luxury
    <<<<"j", "e", "t">>,
      <<"p", "r", "i", "v", "a", "t", "e", " ", "j", "e", "t", " ", "l", "u", "x", "u", "r", "y">>>>,   \* jet -> private jet luxury
    <<<<"c", "h", "e", "s", "s">>,
      <<"c", "h", "e", "s", "s", " ", "d", "a", "r", "k">>>>   \* chess -> chess dark
>>

\* config.MANUAL_YOUTUBE_URLS as shipped
MANUAL_YOUTUBE_URLS ==
    ("STOIC" :> <<"https://www.youtube.com/watch?v=OZBP9lP_WlU",
                  "https://www.youtube.com/watch?v=zMQ3PYM-7lE">>
     @@ "COMBAT" :> <<"https://www.youtube.com/watch?v=pIHpE3PX4Tg",
                      "https://www.youtube.com/watch?v=6Ny64-5xSk4",
                      "https://www.youtube.com/watch?v=GUrr0vRGke0",
                      "https://www.youtube.com/watch?v=BH6zVRKSOD0">>
     @@ "LUXURY" :> <<"https://www.youtube.com/watch?v=S_X6WCZZSa8",
                      "https://www.youtube.com/watch?v=w_0kDNPJ2oQ">>
     @@ "CARS" :> <<"https://www.youtube.com/watch?v=_iHuB7tbdXQ",
                    "https://www.youtube.com/watch?v=Vjd4NJaoxIs",
                    "https://www.youtube.com/watch?v=160tqFcKXZM">>)

\* config.YOUTUBE_SOURCES as shipped
YOUTUBE_SOURCES ==
    ("CARS" :> <<"https://www.youtube.com/watch?v=rX372hwV65k",
                 "https://www.youtube.com/watch?v=21X5lGlDOfg",
                 "https://www.youtube.com/watch?v=eSYwD3YsXJw",
                 "https://www.youtube.com/watch?v=V7Y8qFqaLTY">>
     @@ "COMBAT" :> <<"https://www.youtube.com/watch?v=vr7l2Xy_Zp8",
                      "https://www. youtube.com/watch?v=Xk_bVfk39jQ",
                      "https://www.youtube.com/watch?v=1qf8WJtD5QI",
                      "https://www.youtube.com/watch?v=jY7Xn_s3nOU">>
     @@ "GYM" :> <<"https://www.youtube.com/watch?v=q0vgbTnAJ4c",
                   "https://www.youtube.com/watch?v=J9f2g3Q9s4A",
                   "https://www.youtube.com/watch?v=3S8ZkS2V_5I">>
     @@ "LUXURY" :> <<"https://www.youtube.com/watch?v=hN7GYVqQJkA",
                      "https://www.youtube.com/watch?v=L_LUpNJxHXA",
                      "https://www.youtube.com/watch?v=8I8og9a6dko",
                      "https://www.youtube.com/watch?v=Bearq7QeJk0">>)

DARK_AESTHETIC_FALLBACKS == <<
    <<"s", "u", "p", "e", "r", "c", "a", "r", " ", "n", "i", "g", "h", "t", " ", "d", "r", "i", "v", "e", " ", "f", "a", "s", "t", " ", "n", "e", "o", "n", " ", "c", "i", "t", "y">>,   \* supercar night drive fast neon city
    <<"s", "h", "a", "d", "o", "w", " ", "b", "o", "x", "i", "n", "g", " ", "s", "i", "l", "h", "o", "u", "e", "t", "t", "e", " ", "n", "i", "g", "h", "t", " ", "s", "t", "r", "e", "e", "t", " ", "r", "a", "i", "n">>,   \* shadow boxing silhouette night street rain
    <<"c", "o", "u", "n", "t", "i", "n", "g", " ", "m", "o", "n", "e", "y", " ", "c", "a", "s", "h", " ", "h", "a", "n", "d", "s", " ", "d", "a", "r", "k", " ", "l", "u", "x", "u", "r", "y">>,   \* counting money cash hands dark luxury
    <<"p", "r", "i", "v", "a", "t", "e", " ", "j", "e", "t", " ", "i", "n", "t", "e", "r", "i", "o", "r", " ", "n", "i", "g", "h", "t", " ", "l", "u", "x", "u", "r", "y">>,   \* private jet interior night luxury
    <<"m", "a", "f", "i", "a", " ", "b", "o", "s", "s", " ", "s", "u", "i", "t", " ", "d", "a", "r", "k", " ", "l", "i", "g", "h", "t", "i", "n", "g">>,   \* mafia boss suit dark lighting
    <<"b", "o", "x", "e", "r", " ", "t", "r", "a", "i", "n", "i", "n", "g", " ", "h", "e", "a", "v", "y", " ", "b", "a", "g", " ", "s", "w", "e", "a", "t">>,   \* boxer training heavy bag sweat
    <<"l", "a", "m", "b", "o", "r", "g", "h", "i", "n", "i", " ", "d", "r", "i", "v", "i", "n", "g", " ", "n", "i", "g", "h", "t", " ", "r", "a", "i", "n">>,   \* lamborghini driving night rain
    <<"c", "h", "e", "s", "s", " ", "b", "o", "a", "r", "d", " ", "g", "a", "m", "e", " ", "s", "t", "r", "a", "t", "e", "g", "y", " ", "d", "a", "r", "k">>,   \* chess board game strategy dark
    <<"b", "l", "a", "c", "k", " ", "p", "a", "n", "t", "h", "e", "r", " ", "w", "a", "l", "k", "i", "n", "g", " ", "d", "a", "r", "k">>,   \* black panther walking dark
    <<"m", "a", "n", " ", "i", "n", " ", "s", "u", "i", "t", " ", "a", "d", "j", "u", "s", "t", "i", "n", "g", " ", "t", "i", "e", " ", "d", "a", "r", "k">>   \* man in suit adjusting tie dark
>>

HIGH_ACTION_FALLBACKS == <<
    <<"s", "h", "a", "d", "o", "w", " ", "b", "o", "x", "i", "n", "g", " ", "n", "i", "g", "h", "t", " ", "s", "t", "r", "e", "e", "t", " ", "s", "i", "l", "h", "o", "u", "e", "t", "t", "e">>,   \* shadow boxing night street silhouette
    <<"m", "u", "a", "y", " ", "t", "h", "a", "i", " ", "t", "r", "a", "i", "n", "i", "n", "g", " ", "d", "a", "r", "k", " ", "s", "m", "o", "k", "e">>,   \* muay thai training dark smoke
    <<"c", "a", "l", "i", "s", "t", "h", "e", "n", "i", "c", "s", " ", "m", "u", "s", "c", "l", "e", " ", "u", "p", " ", "n", "i", "g", "h", "t", " ", "p", "a", "r", "k">>,   \* calisthenics muscle up night park
    <<"s", "u", "p", "e", "r", "c", "a", "r", " ", "n", "i", "g", "h", "t", " ", "c", "i", "t", "y", " ", "d", "r", "i", "v", "e", " ", "n", "e", "o", "n">>,   \* supercar night city drive neon
    <<"d", "r", "i", "f", "t", "i", "n", "g", " ", "c", "a", "r", " ", "n", "i", "g", "h", "t", " ", "s", "m", "o", "k", "e", " ", "t", "i", "r", "e", "s">>,   \* drifting car night smoke tires
    <<"m", "m", "a", " ", "f", "i", "g", "h", "t", "e", "r", " ", "c", "a", "g", "e", " ", "t", "r", "a", "i", "n", "i", "n", "g", " ", "d", "a", "r", "k">>,   \* mma fighter cage training dark
    <<"b", "o", "x", "e", "r", " ", "h", "e", "a", "v", "y", " ", "b", "a", "g", " ", "w", "o", "r", "k", "o", "u", "t", " ", "s", "w", "e", "a", "t">>,   \* boxer heavy bag workout sweat
    <<"s", "t", "r", "e", "e", "t", " ", "w", "o", "r", "k", "o", "u", "t", " ", "p", "u", "l", "l", " ", "u", "p", "s", " ", "n", "i", "g", "h", "t">>,   \* street workout pull ups night
    <<"l", "a", "m", "b", "o", "r", "g", "h", "i", "n", "i", " ", "t", "u", "n", "n", "e", "l", " ", "r", "u", "n", " ", "n", "i", "g", "h", "t", " ", "f", "a", "s", "t">>,   \* lamborghini tunnel run night fast
    <<"k", "i", "c", "k", "b", "o", "x", "i", "n", "g", " ", "s", "p", "a", "r", "r", "i", "n", "g", " ", "d", "a", "r", "k", " ", "c", "i", "n", "e", "m", "a", "t", "i", "c">>   \* kickboxing sparring dark cinematic
>>

-----------------------------------------------------------------------------
(* video_downloader.py: the pure helpers of search_videos *)

SCENE_VIDEO_VARIATIONS == 2   \* config.SCENE_VIDEO_VARIATIONS

DEFAULT_CATEGORY == "LUXURY"  \* config.DEFAULT_CATEGORY

RECURSIVE RemoveAll(_, _)
RemoveAll(query, words) ==
    IF words = <<>> THEN query
    ELSE RemoveAll(Replace(query, Head(words), <<>>), Tail(words))

RECURSIVE MapTerms(_, _)
MapTerms(query, table) ==
    IF table = <<>> THEN query
    ELSE LET key == Head(table)[1]
             value == Head(table)[2]
         IN MapTerms(IF In(key, query) THEN Replace(query, key, value)
                     ELSE query,
                     Tail(table))

clean_and_map_query(query) ==
    JoinSplit(MapTerms(RemoveAll(LowerWord(query), remove_words),
                       replacements))

AnyIn(keywords, text) ==
    \E k \in 1..Len(keywords) : In(keywords[k], text)

\* the same rules with the COMBAT rule tried before the CARS rule
detect_category_CombatFirst(query) ==
    LET query_lower == LowerWord(query)
    IN IF AnyIn(COMBAT_KEYWORDS, query_lower) THEN "COMBAT"
       ELSE IF AnyIn(CARS_KEYWORDS, query_lower) THEN "CARS"
       ELSE IF AnyIn(GYM_KEYWORDS, query_lower) THEN "GYM"
       ELSE IF AnyIn(STOIC_KEYWORDS, query_lower) THEN "STOIC"
       ELSE IF AnyIn(LUXURY_KEYWORDS, query_lower) THEN "LUXURY"
       ELSE None

detect_category_from_query(query) ==
    LET query_lower == LowerWord(query)
    IN IF AnyIn(CARS_KEYWORDS, query_lower) THEN "CARS"
       ELSE IF AnyIn(COMBAT_KEYWORDS, query_lower) THEN "COMBAT"
       ELSE IF AnyIn(GYM_KEYWORDS, query_lower) THEN "GYM"
       ELSE IF AnyIn(STOIC_KEYWORDS, query_lower) THEN "STOIC"
       ELSE IF AnyIn(LUXURY_KEYWORDS, query_lower) THEN "LUXURY"
       ELSE None

\* lines 966-985: a blocked term as a whole word, and no stoic exception
has_weak_term(query_lower) ==
    \E k \in 1..Len(WEAK_VISUAL_TERMS) :
        SearchWholeWord(WEAK_VISUAL_TERMS[k], query_lower)

has_stoic_exception(query_lower) ==
    \E k \in 1..Len(STOIC_EXCEPTIONS) :
        SearchWholeWord(STOIC_EXCEPTIONS[k], query_lower)

\* the interception without the exemption of lines 978-982
Intercepted_IgnoresExceptions(query) ==
    has_weak_term(LowerWord(query))

\* line 985: blocked unless a stoic object is named
Intercepted(query) ==
    /\ has_weak_term(LowerWord(query))
    /\ ~has_stoic_exception(LowerWord(query))

\* dict.get(key, [])
DictGet(d, key) == IF key \in DOMAIN d THEN d[key] ELSE <<>>

\* get_manual_youtube_urls(category) for a category that is not None;
\* manual is config.MANUAL_YOUTUBE_URLS, a dict or a legacy flat list
get_manual_youtube_urls(manual, cat) ==
    IF manual.form = "list" THEN manual.urls
    ELSE IF DOMAIN manual.urls = {} THEN <<>>
    ELSE LET urls == DictGet(manual.urls, cat)
         IN IF urls = <<>> /\ cat # DEFAULT_CATEGORY
            THEN DictGet(manual.urls, DEFAULT_CATEGORY)
            ELSE urls

\* search_pexels / search_pixabay on the provider's answer hits (the links
\* of the long enough, vertical videos, in the answer's order): the links
\* not seen before, at most SCENE_VIDEO_VARIATIONS of them, each one added
\* to the seen set as it is taken
RECURSIVE StockScan(_, _, _)
StockScan(hits, found, seen) ==
    IF hits = <<>> \/ Len(found) >= SCENE_VIDEO_VARIATIONS
    THEN [video_urls |-> found, seen |-> seen]
    ELSE IF Head(hits) \in seen
         THEN StockScan(Tail(hits), found, seen)
         ELSE StockScan(Tail(hits), Append(found, Head(hits)),
                        seen \cup {Head(hits)})

search_stock(hits, seen) == StockScan(hits, <<>>, seen)

-----------------------------------------------------------------------------
(* search_videos: the three tiers.  One action is one step of a loop; the  *)
(* answers of the world (which link downloads, what a provider returns)    *)
(* and the random choices are picked inside the action.                    *)

MaxLocalFiles == 3   \* .mp4 files in assets/my_footage

LocalPools == {1..n : n \in 0..MaxLocalFiles}

QCar == <<"c", "a", "r">>   \* "car"
QBed == <<"B", "e", "d">>   \* "Bed"
QCity == <<"4", "k", " ", "c", "i", "t", "y">>   \* "4k city"
QBoringSea == <<"b", "o", "r", "i", "n", "g", " ", "s", "e", "a">>   \* "boring sea"
QStatueSea == <<"s", "t", "a", "t", "u", "e", " ", "s", "e", "a">>   \* "statue sea"
QCaring == <<"c", "a", "r", "i", "n", "g">>   \* "caring"

\* visual_queries of the runs of the local and the curated tier
QueryLists ==
    {<<>>, <<QCar>>, <<QBed>>, <<QCar, QCity>>, <<QCity, QCity>>,
     <<QBoringSea, QStatueSea>>, <<QCaring>>}

\* visual_queries of the runs of the search tier
SearchQueryLists ==
    {<<>>, <<QCar>>, <<QBed>>, <<QStatueSea>>, <<QCity, QCity>>}

\* config.MANUAL_YOUTUBE_URLS: the shipped dict, a dict with one category,
\* an empty dict, or a flat list (old format)
ShippedManual == [form |-> "dict", urls |-> MANUAL_YOUTUBE_URLS]

NoManual == [form |-> "dict", urls |-> <<>>]

ManualConfigs ==
    {ShippedManual,
     [form |-> "dict", urls |-> ("CARS" :> MANUAL_YOUTUBE_URLS["CARS"])],
     [form |-> "list", urls |-> MANUAL_YOUTUBE_URLS["LUXURY"]]}

\* links of stock videos, and the answers a provider may give to a query
ProviderAnswers == {<<>>, <<"stock1">>, <<"stock2", "stock1", "stock3">>}

\* fallback_topic: None (or "") and a topic word
Topics == {<<>>, <<"w", "a", "r">>}

Setup(files, manual, yt, topic, queries) ==
    [local_files |-> files, manual_urls_dict |-> manual,
     YOUTUBE_AVAILABLE |-> yt, fallback_topic |-> topic,
     visual_queries |-> queries]

\* the runs: a local pool with and without curated links configured; no
\* pool and curated links; neither of them
SearchSetups ==
    {Setup(files, manual, TRUE, <<>>, queries) :
        files \in LocalPools \ {{}}, manual \in {ShippedManual, NoManual},
        queries \in QueryLists}
    \cup {Setup({}, manual, yt, <<>>, queries) :
            manual \in ManualConfigs, yt \in BOOLEAN,
            queries \in QueryLists}
    \cup {Setup({}, NoManual, yt, topic, queries) :
            yt \in BOOLEAN, topic \in Topics,
            queries \in SearchQueryLists}

\* value of video_info['local_path'] when the dict has no such key
NoPath == <<>>

LocalPath(f) == <<"my_footage", f>>

\* config.ASSETS_DIR / f"segment_{i}_v{variation_num}_temp.mp4"
temp_output(i, n) == <<"segment", i, "v", n, "temp">>

video_info(url, path, query, i, n, source, cat) ==
    [url |-> url, local_path |-> path, query |-> query, segment_index |-> i,
     variation_number |-> n, source |-> source, category |-> cat]

InitSearch ==
    /\ \E s \in SearchSetups :
         /\ local_files = s.local_files
         /\ manual_urls_dict = s.manual_urls_dict
         /\ YOUTUBE_AVAILABLE = s.YOUTUBE_AVAILABLE
         /\ visual_queries = s.visual_queries
         /\ fallback_topic = s.fallback_topic
    /\ pc = "sv_start"
    /\ segment_idx = 0
    /\ result = "running"
    /\ variation_num = 0
    /\ segment_variations = <<>>
    /\ all_segment_variations = <<>>
    /\ seen_video_urls = {}
    /\ used_local_files = {}
    /\ visual_query = <<>>
    /\ category = None
    /\ category_urls = <<>>
    /\ primary_source = None
    /\ video_urls = <<>>
    /\ fallback_attempts = 0
    /\ calls = {}
    /\ reshuffle_log = <<>>
    /\ provider_log = <<>>
    /\ clip_source = <<>>
    /\ script_data = NoScript
    /\ word_timings = <<>>
    /\ timing_file = <<>>
    /\ use_exact = FALSE
    /\ total_duration = 0
    /\ fixed_duration = 0
    /\ word_index = 0
    /\ base_scenes = <<>>
    /\ scenes = <<>>
    /\ current_time = 0
    /\ scene_start_time = 0
    /\ current_scene_words = <<>>
    /\ strategy = <<>>
    /\ assignIdle
    /\ processIdle
    /\ clipIdle

\* the inputs of a search_videos run
svInputs == <<local_files, manual_urls_dict, YOUTUBE_AVAILABLE,
              visual_queries, fallback_topic>>

\* the locals of the search tier
svStock == <<visual_query, primary_source, video_urls, fallback_attempts,
             provider_log>>

\* a variant that takes the local tier only when the pool can fill a list
LocalTierActive_NeedsFullPool(files) ==
    Cardinality(files) >= SCENE_VIDEO_VARIATIONS

\* lines 819-821, 860-865, 918-919, 955: the tier that serves the run
LocalTierActive(files) == files # {}

\* a variant in which configured links do not keep the run from the search
Tier_IgnoresManual(files, manual) ==
    IF LocalTierActive(files) THEN "local" ELSE "search"

Tier(files, manual) ==
    IF LocalTierActive(files) THEN "local"
    ELSE IF manual.form = "dict" /\ DOMAIN manual.urls # {} THEN "curated"
    ELSE IF manual.form = "list" /\ manual.urls # <<>> THEN "flat"
    ELSE "search"

SvEntry ==
    /\ pc = "sv_start"
    /\ pc' = Tier(local_files, manual_urls_dict)
    /\ calls' = calls \cup {"get_local_footage_files"}
    /\ variation_num' = 1
    /\ UNCHANGED <<svInputs, svStock, segment_idx, result,
                   segment_variations, all_segment_variations,
                   seen_video_urls, used_local_files, category,
                   category_urls, reshuffle_log, clip_source,
                   sceneRest, assignVars, processVars, clipVars>>

EndSegment_DropsEmpty(list) ==
    /\ all_segment_variations' = IF list = <<>> THEN all_segment_variations
                                 ELSE Append(all_segment_variations, list)
    /\ segment_variations' = <<>>
    /\ segment_idx' = segment_idx + 1
    /\ variation_num' = 1

\* the segment's list is complete: append it and go to the next query
EndSegment(list) ==
    /\ all_segment_variations' = Append(all_segment_variations, list)
    /\ segment_variations' = <<>>
    /\ segment_idx' = segment_idx + 1
    /\ variation_num' = 1

InLoop == segment_idx < Len(visual_queries)

raw_query == visual_queries[segment_idx + 1]

-----------------------------------------------------------------------------
(* Priority 1: local footage, lines 819-858 *)

\* line 827
AvailableFiles(files, used) == files \ used

\* one pass of the variation loop, lines 825-853; the list is appended
\* (line 855) after the last variation
SvLocalPick ==
    /\ pc = "local"
    /\ InLoop
    /\ LET available_files == AvailableFiles(local_files, used_local_files)
           exhausted == available_files = {}
       IN \E chosen_file \in (IF exhausted THEN local_files
                              ELSE available_files) :
            LET info == video_info("local", LocalPath(chosen_file),
                                   raw_query, segment_idx, variation_num,
                                   "local", None)
                list == Append(segment_variations, info)
            IN /\ used_local_files' =
                     (IF exhausted THEN {} ELSE used_local_files)
                         \cup {chosen_file}
               /\ reshuffle_log' =
                     IF exhausted
                     THEN Append(reshuffle_log,
                                 [segment_index |-> segment_idx,
                                  variation_number |-> variation_num])
                     ELSE reshuffle_log
               /\ IF variation_num < SCENE_VIDEO_VARIATIONS
                  THEN /\ segment_variations' = list
                       /\ variation_num' = variation_num + 1
                       /\ UNCHANGED <<all_segment_variations, segment_idx>>
                  ELSE EndSegment(list)
    /\ UNCHANGED <<svInputs, svStock, pc, result, seen_video_urls, category,
                   category_urls, calls, clip_source, sceneRest, assignVars,
                   processVars, clipVars>>

-----------------------------------------------------------------------------
(* Priority 2: curated links, lines 860-953 *)

\* lines 872-893 (dict) and 924-926 (flat list): the links of the segment
SvCuratedSegment ==
    /\ pc \in {"curated", "flat"}
    /\ InLoop
    /\ variation_num = 1
    /\ category_urls = <<>>
    /\ IF pc = "curated"
       THEN LET detected == detect_category_from_query(raw_query)
                cat == IF detected # None THEN detected ELSE DEFAULT_CATEGORY
                urls == get_manual_youtube_urls(manual_urls_dict, cat)
            IN /\ category' = cat
               /\ category_urls' = urls
               /\ calls' = calls \cup {"detect_category_from_query",
                                       "get_manual_youtube_urls"}
               /\ IF urls = <<>>
                  THEN EndSegment(segment_variations)
                  ELSE UNCHANGED <<all_segment_variations,
                                   segment_variations, segment_idx,
                                   variation_num>>
       ELSE /\ category' = None
            /\ category_urls' = manual_urls_dict.urls
            /\ UNCHANGED <<calls, all_segment_variations,
                           segment_variations, segment_idx, variation_num>>
    /\ UNCHANGED <<svInputs, svStock, pc, result, seen_video_urls,
                   used_local_files, reshuffle_log, clip_source,
                   sceneRest, assignVars, processVars, clipVars>>

\* download_youtube_clip(video_urls, output_path): False when yt-dlp is
\* missing; otherwise it tries links of the list and either one of them
\* gives the clip or all that were tried fail
ClipOutcomes(urls) ==
    IF YOUTUBE_AVAILABLE THEN {urls[k] : k \in 1..Len(urls)} \cup {None}
    ELSE {None}

\* lines 896-913 and 927-946: one variation; the list is appended after
\* the last one
SvCuratedDownload ==
    /\ pc \in {"curated", "flat"}
    /\ InLoop
    /\ category_urls # <<>>
    /\ \E got \in ClipOutcomes(category_urls) :
        LET path == temp_output(segment_idx, variation_num)
            info == video_info("youtube_manual", path, raw_query,
                               segment_idx, variation_num, "youtube_manual",
                               category)
            list == IF got # None THEN Append(segment_variations, info)
                    ELSE segment_variations
        IN /\ clip_source' = IF got # None THEN (path :> got) @@ clip_source
                             ELSE clip_source
           /\ IF variation_num < SCENE_VIDEO_VARIATIONS
              THEN /\ segment_variations' = list
                   /\ variation_num' = variation_num + 1
                   /\ UNCHANGED <<all_segment_variations, segment_idx,
                                  category_urls>>
              ELSE /\ EndSegment(list)
                   /\ category_urls' = <<>>
    /\ calls' = calls \cup {"download_youtube_clip"}
    /\ UNCHANGED <<svInputs, svStock, pc, result, seen_video_urls,
                   used_local_files, category, reshuffle_log,
                   sceneRest, assignVars, processVars, clipVars>>

-----------------------------------------------------------------------------
(* Priority 3: automated search, lines 955-1150 *)

\* lines 962-994: the query that is searched and its category
SvSearchQuery ==
    /\ pc = "search"
    /\ InLoop
    /\ LET cleaned == clean_and_map_query(raw_query)
       IN \E q \in (IF Intercepted(cleaned)
                    THEN {HIGH_ACTION_FALLBACKS[k] :
                              k \in 1..Len(HIGH_ACTION_FALLBACKS)}
                    ELSE {cleaned}) :
            /\ visual_query' = q
            /\ category' = detect_category_from_query(q)
    /\ calls' = calls \cup {"clean_and_map_query",
                            "detect_category_from_query"}
    /\ pc' = "search_youtube"
    /\ UNCHANGED <<svInputs, segment_idx, result, variation_num,
                   segment_variations, all_segment_variations,
                   seen_video_urls, used_local_files, category_urls,
                   primary_source, video_urls, fallback_attempts,
                   reshuffle_log, provider_log, clip_source,
                   sceneRest, assignVars, processVars, clipVars>>

\* the candidates of the variations that downloaded, in variation order
RECURSIVE YoutubeInfos(_, _, _, _)
YoutubeInfos(got, n, q, i) ==
    IF n > SCENE_VIDEO_VARIATIONS THEN <<>>
    ELSE (IF got[n] # None
          THEN <<video_info("youtube", temp_output(i, n), q, i, n,
                            "youtube", None)>>
          ELSE <<>>)
         \o YoutubeInfos(got, n + 1, q, i)

RECURSIVE YoutubeFiles(_, _, _)
YoutubeFiles(got, n, i) ==
    IF n > SCENE_VIDEO_VARIATIONS THEN <<>>
    ELSE (IF got[n] # None THEN temp_output(i, n) :> got[n] ELSE <<>>)
         @@ YoutubeFiles(got, n + 1, i)

\* the links that pass check_youtube_url_health, or, when none does, the
\* answer of search_youtube_videos (lines 1002-1018)
ValidUrlSets(cat) ==
    (SUBSET {YOUTUBE_SOURCES[cat][k] : k \in 1..2})
        \cup {{"https://www.youtube.com/watch?v=found"}}

\* lines 996-1046: YouTube first; a full list skips the stock providers,
\* otherwise the primary provider is drawn (lines 1052-1057)
SvSearchYoutube ==
    /\ pc = "search_youtube"
    /\ \E valid_urls \in (IF category # None /\ YOUTUBE_AVAILABLE
                             /\ category \in DOMAIN YOUTUBE_SOURCES
                          THEN ValidUrlSets(category) ELSE {{}}) :
       \E got \in [1..SCENE_VIDEO_VARIATIONS -> valid_urls \cup {None}] :
       \E primary \in {"pexels", "pixabay"} :
          LET tried == valid_urls # {}
              list == IF tried
                      THEN YoutubeInfos(got, 1, visual_query, segment_idx)
                      ELSE <<>>
          IN /\ (~tried => \A n \in DOMAIN got : got[n] = None)
             /\ clip_source' = IF tried
                               THEN YoutubeFiles(got, 1, segment_idx)
                                        @@ clip_source
                               ELSE clip_source
             /\ calls' = calls
                  \cup (IF category # None /\ YOUTUBE_AVAILABLE
                           /\ category \in DOMAIN YOUTUBE_SOURCES
                        THEN {"check_youtube_url_health"} ELSE {})
                  \cup (IF tried THEN {"download_youtube_clip"} ELSE {})
             /\ IF Len(list) >= SCENE_VIDEO_VARIATIONS
                THEN /\ EndSegment(list)
                     /\ pc' = "search"
                     /\ primary = "pexels"
                     /\ UNCHANGED primary_source
                ELSE /\ segment_variations' = list
                     /\ pc' = "search_primary"
                     /\ primary_source' = primary
                     /\ UNCHANGED <<all_segment_variations, segment_idx,
                                    variation_num>>
    /\ UNCHANGED <<svInputs, result, seen_video_urls, used_local_files,
                   visual_query, category, category_urls, video_urls,
                   fallback_attempts, reshuffle_log, provider_log,
                   sceneRest, assignVars, processVars, clipVars>>

secondary_source_IsPrimary == primary_source

secondary_source == IF primary_source = "pixabay" THEN "pexels" ELSE "pixabay"

\* one call of search_pexels / search_pixabay from the segment's loop body:
\* the links it returns are appended to video_urls
ProviderCall(provider, query, hits) ==
    LET r == search_stock(hits, seen_video_urls)
    IN /\ video_urls' = video_urls \o r.video_urls
       /\ seen_video_urls' = r.seen
       /\ provider_log' = Append(provider_log,
                                 [provider |-> provider, query |-> query])
       /\ calls' = calls \cup {IF provider = "pexels" THEN "search_pexels"
                            ELSE "search_pixabay"}

NoProviderCall == UNCHANGED <<video_urls, seen_video_urls, provider_log, calls>>

\* lines 1059-1067
SvStockPrimary ==
    /\ pc = "search_primary"
    /\ \E hits \in ProviderAnswers :
           ProviderCall(primary_source, visual_query, hits)
    /\ pc' = "search_secondary"
    /\ UNCHANGED <<svInputs, segment_idx, result, variation_num,
                   segment_variations, all_segment_variations,
                   used_local_files, visual_query, category, category_urls,
                   primary_source, fallback_attempts, reshuffle_log,
                   clip_source, sceneRest, assignVars, processVars, clipVars>>

\* lines 1069-1076
SvStockSecondary ==
    /\ pc = "search_secondary"
    /\ IF Len(video_urls) < SCENE_VIDEO_VARIATIONS
       THEN \E hits \in ProviderAnswers :
                ProviderCall(secondary_source, visual_query, hits)
       ELSE NoProviderCall
    /\ pc' = "search_dark"
    /\ UNCHANGED <<svInputs, segment_idx, result, variation_num,
                   segment_variations, all_segment_variations,
                   used_local_files, visual_query, category, category_urls,
                   primary_source, fallback_attempts, reshuffle_log,
                   clip_source, sceneRest, assignVars, processVars, clipVars>>

\* lines 1078-1096: one pass of the while loop
SvStockDark ==
    /\ pc = "search_dark"
    /\ Len(video_urls) < SCENE_VIDEO_VARIATIONS
    /\ fallback_attempts < Len(DARK_AESTHETIC_FALLBACKS)
    /\ \E hits \in ProviderAnswers :
           ProviderCall(primary_source,
                        DARK_AESTHETIC_FALLBACKS[fallback_attempts + 1], hits)
    /\ fallback_attempts' = fallback_attempts + 1
    /\ UNCHANGED <<svInputs, pc, segment_idx, result, variation_num,
                   segment_variations, all_segment_variations,
                   used_local_files, visual_query, category, category_urls,
                   primary_source, reshuffle_log, clip_source,
                   sceneRest, assignVars, processVars, clipVars>>

\* lines 1110-1131: the stock links that fill the remaining slots
RECURSIVE StockInfos(_, _, _, _, _)
StockInfos(urls, idx, start_variation_num, q, i) ==
    IF idx >= Len(urls) THEN <<>>
    ELSE <<video_info(urls[idx + 1], NoPath, q, i, start_variation_num + idx,
                      IF idx = 0 THEN primary_source ELSE secondary_source,
                      None)>>
         \o StockInfos(urls, idx + 1, start_variation_num, q, i)

Collect(list, urls, q, i) ==
    IF urls # <<>>
    THEN LET remaining_slots == SCENE_VIDEO_VARIATIONS - Len(list)
         IN list \o StockInfos(SubSeq(urls, 1,
                                      Min(remaining_slots, Len(urls))),
                               0, Len(list) + 1, q, i)
    ELSE <<>>

\* lines 1098-1141: after the while loop, the topic query if the list is
\* still short, then the segment's list is put together and appended
SvStockTopic ==
    /\ pc = "search_dark"
    /\ ~(/\ Len(video_urls) < SCENE_VIDEO_VARIATIONS
         /\ fallback_attempts < Len(DARK_AESTHETIC_FALLBACKS))
    /\ IF Len(video_urls) < SCENE_VIDEO_VARIATIONS /\ fallback_topic # <<>>
       THEN \E hits \in ProviderAnswers :
                /\ ProviderCall(primary_source, fallback_topic, hits)
                /\ pc' = "search_collect"
       ELSE /\ NoProviderCall
            /\ pc' = "search_collect"
    /\ UNCHANGED <<svInputs, segment_idx, result, variation_num,
                   segment_variations, all_segment_variations,
                   used_local_files, visual_query, category, category_urls,
                   primary_source, fallback_attempts, reshuffle_log,
                   clip_source, sceneRest, assignVars, processVars, clipVars>>

SvCollect ==
    /\ pc = "search_collect"
    /\ EndSegment(Collect(segment_variations, video_urls, visual_query,
                          segment_idx))
    /\ video_urls' = <<>>
    /\ fallback_attempts' = 0
    /\ provider_log' = <<>>
    /\ pc' = "search"
    /\ UNCHANGED <<svInputs, result, seen_video_urls, used_local_files,
                   visual_query, category, category_urls, primary_source,
                   calls, reshuffle_log, clip_source, sceneRest, assignVars,
                   processVars, clipVars>>

\* lines 857-858, 915-916, 952-953, 1143-1150
SvReturn ==
    /\ pc \in {"local", "curated", "flat", "search"}
    /\ ~InLoop
    /\ pc' = "done"
    /\ result' = "returned"
    /\ UNCHANGED <<svInputs, svStock, segment_idx, variation_num,
                   segment_variations, all_segment_variations,
                   seen_video_urls, used_local_files, category,
                   category_urls, calls, reshuffle_log, clip_source,
                   sceneRest, assignVars, processVars, clipVars>>

NextSearch ==
    \/ SvEntry
    \/ SvLocalPick
    \/ SvCuratedSegment
    \/ SvCuratedDownload
    \/ SvSearchQuery
    \/ SvSearchYoutube
    \/ SvStockPrimary
    \/ SvStockSecondary
    \/ SvStockDark
    \/ SvStockTopic
    \/ SvCollect
    \/ SvReturn

SpecSearch == InitSearch /\ [][NextSearch]_vars

-----------------------------------------------------------------------------
(* assign_clips_to_scenes: one action per scene of the loop *)

MaxPaths == 3   \* entries of video_paths

\* lengths of the asset files, in seconds
AssetLengths == {2, 5}

AssignScript(segs) ==
    [NoScript EXCEPT !.has_segments = TRUE, !.segments = segs]

\* scene lists as the generators build them: aligned scenes, with sub-cuts,
\* with a segment that has no words in front, and fixed-interval scenes
AssignSceneLists ==
    {create_semantic_scenes(
         AssignScript(<<<<WA>>, <<WB>>>>),
         LayOut(<<<<<<WA>>, <<0, 3>>>>, <<<<WB>>, <<0, 4>>>>>>, 0,
                TicksPerSecond),
         Sec(MAX_SCENE_DURATION)).scenes,
     create_semantic_scenes(
         AssignScript(<<<<WA>>, <<WB>>, <<WA>>>>),
         LayOut(<<<<<<WA>>, <<0, 3>>>>, <<<<WB>>, <<0, 3>>>>,
                  <<<<WA>>, <<1, 3>>>>>>, 0, TicksPerSecond),
         Sec(MAX_SCENE_DURATION)).scenes,
     create_semantic_scenes(
         AssignScript(<<<<WBang>>, <<WA, WB>>>>),
         LayOut(<<<<<<WA>>, <<0, 3>>>>, <<<<WB>>, <<1, 4>>>>>>, 0,
                TicksPerSecond),
         Sec(MAX_SCENE_DURATION)).scenes,
     create_fixed_duration_scenes(Sec(5), Sec(FIXED_WINDOW)),
     <<>>}

InitAssign ==
    /\ scenes \in AssignSceneLists
    /\ \E n \in 0..MaxPaths :
         /\ video_paths = [k \in 1..n |-> k]
         /\ video_duration \in [1..n -> {Sec(s) : s \in AssetLengths}]
         /\ unreadable \in SUBSET (1..n)
    /\ positioned_clips = <<>>
    /\ video_offsets = <<>>
    /\ pc = "assign"
    /\ segment_idx = 0
    /\ result = "running"
    /\ script_data = NoScript
    /\ word_timings = <<>>
    /\ timing_file = <<>>
    /\ use_exact = FALSE
    /\ total_duration = 0
    /\ fixed_duration = 0
    /\ word_index = 0
    /\ base_scenes = <<>>
    /\ current_time = 0
    /\ scene_start_time = 0
    /\ current_scene_words = <<>>
    /\ strategy = <<>>
    /\ searchIdle
    /\ processIdle
    /\ clipIdle

\* the inputs of the run and the variables of the other functions
acUnch == <<scenes, video_paths, video_duration, unreadable, script_data,
            word_timings, timing_file, use_exact, total_duration,
            fixed_duration, word_index, base_scenes, current_time,
            scene_start_time, current_scene_words, strategy, searchVars,
            processVars, clipVars>>

\* lines 670-678: the segment the scene counts for, and the entry it gets
SegmentIndexOf(scene, i) ==
    IF "segment_index" \in DOMAIN scene THEN scene.segment_index ELSE i

VideoIndex_ByPosition(scene, i, n) == i % n

\* lines 672-678
VideoIndex(scene, i, n) == SegmentIndexOf(scene, i) % n

\* scene.get('is_subcut', False)
IsSubcut(scene) == "is_subcut" \in DOMAIN scene /\ scene.is_subcut

\* lines 687-691
CurrentOffset(offsets, segment_index) ==
    IF segment_index \in DOMAIN offsets THEN offsets[segment_index] ELSE 0

\* a jump cut that skips one second and does not look at the asset's end
SubcutStart_SkipOnly(current_offset, duration, length) ==
    IF current_offset + duration > length
    THEN current_offset + Sec(1)
    ELSE current_offset

\* lines 696-706: the window of a sub-cut, with the jump cut
SubcutStart(current_offset, duration, length) ==
    IF current_offset + duration > length
    THEN Max(0, Min(current_offset + Sec(1), length - duration))
    ELSE current_offset

\* lines 715-720: random.uniform(0, max(0, max_start)); the two ends of the
\* interval stand for the draw
RegularStarts(duration, length) ==
    IF length > duration
    THEN {0, Max(0, Min(HalfSecond, length - duration))}
    ELSE {0}

\* the clip with the number of copies rounded down
BuildClip_FloorLoops(path, i, start_time, duration, length) ==
    LET end_time == start_time + duration
        window == length > duration /\ end_time =< length
    IN [video_path |-> path, scene |-> i, duration |-> duration,
        start_time |-> IF window THEN start_time ELSE 0,
        end_time |-> IF window THEN end_time ELSE duration,
        num_loops |-> IF window THEN 0 ELSE duration \div length,
        fallback |-> FALSE]

\* lines 728-736: the window, or the looped asset cut to the duration
BuildClip(path, i, start_time, duration, length) ==
    LET end_time == start_time + duration
        window == length > duration /\ end_time =< length
    IN [video_path |-> path, scene |-> i, duration |-> duration,
        start_time |-> IF window THEN start_time ELSE 0,
        end_time |-> IF window THEN end_time ELSE duration,
        num_loops |-> IF window THEN 0 ELSE CeilDiv(duration, length),
        fallback |-> FALSE]

\* lines 667-780: one pass of the loop over the scenes
AcScene ==
    /\ pc = "assign"
    /\ segment_idx < Len(scenes)
    /\ Len(video_paths) > 0
    /\ LET i == segment_idx
           scene == scenes[i + 1]
           duration == scene.duration
           segment_index == SegmentIndexOf(scene, i)
           video_path == video_paths[VideoIndex(scene, i, Len(video_paths)) + 1]
           length == video_duration[video_path]
           current_offset == CurrentOffset(video_offsets, segment_index)
       IN IF video_path \in unreadable
          THEN \* VideoFileClip raised: reuse the previous clip, if any
               /\ positioned_clips' =
                     IF positioned_clips # <<>>
                     THEN Append(positioned_clips,
                                 [positioned_clips[Len(positioned_clips)]
                                     EXCEPT !.duration = duration,
                                            !.scene = i,
                                            !.fallback = TRUE])
                     ELSE positioned_clips
               /\ UNCHANGED video_offsets
          ELSE \E start_time \in
                    (IF IsSubcut(scene)
                     THEN {SubcutStart(current_offset, duration, length)}
                     ELSE RegularStarts(duration, length)) :
                 /\ video_offsets' =
                       (segment_index :>
                            (IF IsSubcut(scene) THEN start_time + duration
                             ELSE 0)) @@ video_offsets
                 /\ positioned_clips' =
                       Append(positioned_clips,
                              BuildClip(video_path, i, start_time, duration,
                                        length))
    /\ segment_idx' = segment_idx + 1
    /\ UNCHANGED <<acUnch, pc, result>>

\* line 674 / 678 with an empty video_paths: the modulo raises
AcRaise ==
    /\ pc = "assign"
    /\ segment_idx < Len(scenes)
    /\ Len(video_paths) = 0
    /\ pc' = "done"
    /\ result' = "raised"
    /\ UNCHANGED <<acUnch, segment_idx, positioned_clips, video_offsets>>

\* line 781
AcReturn ==
    /\ pc = "assign"
    /\ segment_idx = Len(scenes)
    /\ pc' = "done"
    /\ result' = "returned"
    /\ UNCHANGED <<acUnch, segment_idx, positioned_clips, video_offsets>>

NextAssign == AcScene \/ AcRaise \/ AcReturn

SpecAssign == InitAssign /\ [][NextAssign]_vars

-----------------------------------------------------------------------------
(* Properties of search_videos *)

SvReturned == pc = "done" /\ result = "returned" /\ calls # {}

\* the candidate lists built so far, the one being filled included
ListsSoFar == Append(all_segment_variations, segment_variations)

\* what only the curated and the search tier call
OtherTierCalls ==
    {"detect_category_from_query", "get_manual_youtube_urls",
     "download_youtube_clip", "clean_and_map_query",
     "check_youtube_url_health", "search_pexels", "search_pixabay"}

IsLocalCandidate(c) ==
    /\ c.source = "local"
    /\ c.url = "local"
    /\ \E f \in local_files : c.local_path = LocalPath(f)

\* C8: in a run that finds a non-empty local pool every candidate of every
\* segment comes from the local tier, and no curated-link extraction,
\* category lookup or stock-provider query is made at any point of the run.
C8_LocalPoolShortCircuits ==
    local_files # {} =>
        /\ calls \cap OtherTierCalls = {}
        /\ DOMAIN clip_source = {}
        /\ seen_video_urls = {}
        /\ provider_log = <<>>
        /\ \A k \in 1..Len(ListsSoFar) :
              \A n \in 1..Len(ListsSoFar[k]) :
                  IsLocalCandidate(ListsSoFar[k][n])
        /\ (SvReturned =>
              /\ Len(all_segment_variations) = Len(visual_queries)
              /\ \A k \in 1..Len(all_segment_variations) :
                    Len(all_segment_variations[k]) = SCENE_VIDEO_VARIATIONS)

\* a finished local run of two segments although curated links are
\* configured
C8_Witness ==
    /\ SvReturned
    /\ local_files # {}
    /\ manual_urls_dict = ShippedManual
    /\ Len(all_segment_variations) = 2
    /\ Len(all_segment_variations[2]) = SCENE_VIDEO_VARIATIONS

\* the asset behind a candidate: the local file, the link a downloaded clip
\* was cut from, or the stock link
Underlying(c) ==
    IF c.local_path \in DOMAIN clip_source
    THEN <<"link", clip_source[c.local_path]>>
    ELSE <<c.url, c.local_path>>

PairwiseDistinct(list) ==
    \A a, b \in 1..Len(list) :
        a # b => Underlying(list[a]) # Underlying(list[b])

\* C9: in every tier the candidate list of a segment holds at most
\* K = SCENE_VIDEO_VARIATIONS candidates and no two of them refer to the
\* same underlying asset, whatever the size of the pool.
C9_AtMostKDistinctCandidates ==
    SvReturned =>
        \A k \in 1..Len(all_segment_variations) :
            /\ Len(all_segment_variations[k]) =< SCENE_VIDEO_VARIATIONS
            /\ PairwiseDistinct(all_segment_variations[k])

-----------------------------------------------------------------------------
(* Properties of assign_clips_to_scenes *)

AcReturned == pc = "done" /\ result = "returned" /\ positioned_clips # <<>>

\* more segments ask for an asset than there are entries
PoolExhausted ==
    Cardinality({SegmentIndexOf(scenes[k], k - 1) : k \in 1..Len(scenes)})
        > Len(video_paths)

\* C10: no two scenes of the clip list are bound to the same asset file
\* unless the candidate pool was exhausted and a reshuffle was logged.
C10_NoAssetBoundTwice ==
    AcReturned =>
        \A a, b \in 1..Len(positioned_clips) :
            (a # b /\ positioned_clips[a].video_path
                        = positioned_clips[b].video_path)
                => (PoolExhausted /\ reshuffle_log # <<>>)

\* the positions <<segment, variation>> of the candidates returned by the run
ReturnedPositions ==
    {p \in (1..Len(all_segment_variations)) \X (1..SCENE_VIDEO_VARIATIONS) :
        p[2] =< Len(all_segment_variations[p[1]])}

CandidateAt(p) == all_segment_variations[p[1]][p[2]]

\* C11: no underlying source asset (local file, curated link, stock link)
\* is returned for two different segments or variations of one search_videos
\* run, in whichever tier the run is served.
C11_NoSourceAssetReturnedTwice ==
    SvReturned =>
        \A p, q \in ReturnedPositions :
            p # q => Underlying(CandidateAt(p)) # Underlying(CandidateAt(q))

-----------------------------------------------------------------------------
(* Properties of the search tier's query *)

\* the segment's query has been fixed and the segment is not yet collected
QueryChosen ==
    pc \in {"search_youtube", "search_primary", "search_secondary",
            "search_dark", "search_collect"}

ContainsWholeWord(terms, text) ==
    \E k \in 1..Len(terms) : SearchWholeWord(terms[k], text)

HighActionQueries ==
    {HIGH_ACTION_FALLBACKS[k] : k \in 1..Len(HIGH_ACTION_FALLBACKS)}

\* C12: in the search tier a query that contains a term of
\* WEAK_VISUAL_TERMS as a whole word and no term of STOIC_EXCEPTIONS as a
\* whole word is replaced by a member of HIGH_ACTION_FALLBACKS; a query
\* without a weak term, or with an exception term as well, is searched as
\* cleaned. The first provider query of the segment is that query.
C12_WeakQueryIntercepted ==
    QueryChosen =>
        LET cleaned == clean_and_map_query(raw_query)
            weak == ContainsWholeWord(WEAK_VISUAL_TERMS, cleaned)
            exception == ContainsWholeWord(STOIC_EXCEPTIONS, cleaned)
        IN /\ (weak /\ ~exception) =>
                 (visual_query \in HighActionQueries /\ visual_query # cleaned)
           /\ (~weak \/ exception) => visual_query = cleaned
           /\ provider_log # <<>> => provider_log[1].query = visual_query

\* "Bed" was replaced and the replacement went to the primary provider
C12_Witness ==
    /\ pc = "search_secondary"
    /\ raw_query = QBed
    /\ provider_log # <<>>
    /\ provider_log[1].query \in HighActionQueries

-----------------------------------------------------------------------------
(* Properties of the category of a query *)

CategoryOrder == <<"CARS", "COMBAT", "GYM", "STOIC", "LUXURY">>

CategoryKeywords ==
    [CARS |-> CARS_KEYWORDS, COMBAT |-> COMBAT_KEYWORDS,
     GYM |-> GYM_KEYWORDS, STOIC |-> STOIC_KEYWORDS,
     LUXURY |-> LUXURY_KEYWORDS]

\* a keyword of the n-th category is a substring of the lower-cased text
KeywordOccurs(n, text) ==
    \E k \in 1..Len(CategoryKeywords[CategoryOrder[n]]) :
        In(CategoryKeywords[CategoryOrder[n]][k], LowerWord(text))

FirstCategory(text) ==
    LET hits == {n \in 1..Len(CategoryOrder) : KeywordOccurs(n, text)}
    IN IF hits = {} THEN None
       ELSE CategoryOrder[CHOOSE n \in hits : \A m \in hits : n =< m]

CuratedCategory(text) ==
    LET first == FirstCategory(text)
    IN IF first = None THEN DEFAULT_CATEGORY ELSE first


\* C13: the category of a query is a function of its text: the first of
\* CARS, COMBAT, GYM, STOIC, LUXURY with a keyword occurring as a substring
\* of the lower-cased query, None when there is none; the curated tier takes
\* DEFAULT_CATEGORY for None.
C13_CategoryIsFirstKeywordMatch ==
    /\ (pc = "curated" /\ InLoop /\ category_urls # <<>>) =>
           category = CuratedCategory(raw_query)
    /\ pc = "search_youtube" => category = FirstCategory(visual_query)
    /\ (SvReturned /\ manual_urls_dict.form = "dict") =>
           \A p \in ReturnedPositions :
               CandidateAt(p).source = "youtube_manual" =>
                   CandidateAt(p).category
                       = CuratedCategory(CandidateAt(p).query)

\* "caring" names a CARS and a COMBAT keyword, "boring sea" a COMBAT keyword
\* inside a word, "Bed" none: clips were cut for each of them
C13_Witness ==
    /\ pc = "curated"
    /\ InLoop
    /\ raw_query = QCaring
    /\ category = "CARS"
    /\ segment_variations # <<>>
    /\ segment_variations[1].category = "CARS"

-----------------------------------------------------------------------------
(* Properties of the windows of sub-cuts *)

SceneOfClip(c) == scenes[c.scene + 1]

SegmentOfClip(c) == SegmentIndexOf(SceneOfClip(c), c.scene)

\* clips a < b were cut for sub-cut scenes of one run of consecutive
\* sub-cuts of the same segment
SameSubcutRun(a, b) ==
    /\ a < b
    /\ ~positioned_clips[a].fallback
    /\ ~positioned_clips[b].fallback
    /\ \A j \in (positioned_clips[a].scene + 1)..(positioned_clips[b].scene + 1) :
          /\ IsSubcut(scenes[j])
          /\ SegmentIndexOf(scenes[j], j - 1) = SegmentOfClip(positioned_clips[a])

\* C14: the windows of a run of consecutive sub-cuts of one segment are
\* taken from the same asset and each starts at or after the end of the
\* windows taken before it for that segment, also after a jump cut.
C14_SubcutWindowsDoNotOverlap ==
    \A a, b \in 1..Len(positioned_clips) :
        SameSubcutRun(a, b) =>
            /\ positioned_clips[a].video_path = positioned_clips[b].video_path
            /\ positioned_clips[b].start_time >= positioned_clips[a].end_time

-----------------------------------------------------------------------------
(* Properties of the returned clip list *)

\* clip k is the clip before it, cut to the duration of scene k
ReusesPrevious(k) ==
    /\ k > 1
    /\ positioned_clips[k].video_path = positioned_clips[k - 1].video_path
    /\ positioned_clips[k].start_time = positioned_clips[k - 1].start_time

-----------------------------------------------------------------------------
(* stitch_and_edit_video from line 880 on: the scenes are built, the clips
   are assigned and concatenated *)

\* lines 880, 921-924: the list returned by assign_clips_to_scenes is
\* concatenated unless it is empty
StClipsCheck ==
    /\ pc = "done"
    /\ result = "returned"
    /\ pc' = "stitched"
    /\ result' = IF positioned_clips = <<>> THEN "no_valid_clips"
                 ELSE "concatenated"
    /\ UNCHANGED <<acUnch, segment_idx, positioned_clips, video_offsets>>

\* line 880: the call is not inside a try block, what assign_clips_to_scenes
\* raises leaves stitch_and_edit_video
StAssignError ==
    /\ pc = "done"
    /\ result = "raised"
    /\ pc' = "stitched"
    /\ result' = "ZeroDivisionError"
    /\ UNCHANGED <<acUnch, segment_idx, positioned_clips, video_offsets>>

NextStitchClips == NextAssign \/ StClipsCheck \/ StAssignError

SpecStitchClips == InitAssign /\ [][NextStitchClips]_vars

\* C16: stitch_and_edit_video raises the no-clips failure exactly when no
\* scene got a clip, and in every other case no error of the clip
\* assignment reaches its caller.
C16_NoClipsFailureIffNothingBound ==
    pc = "stitched" =>
        /\ result \in {"no_valid_clips", "concatenated"}
        /\ result = "no_valid_clips" <=> positioned_clips = <<>>

-----------------------------------------------------------------------------
(* Properties of the choice of the tier *)

SearchTierCalls ==
    {"clean_and_map_query", "check_youtube_url_health", "search_pexels",
     "search_pixabay"}

CuratedConfigured ==
    \/ manual_urls_dict.form = "dict" /\ DOMAIN manual_urls_dict.urls # {}
    \/ manual_urls_dict.form = "list" /\ manual_urls_dict.urls # <<>>

SomeListShort ==
    \E k \in 1..Len(all_segment_variations) :
        Len(all_segment_variations[k]) < SCENE_VIDEO_VARIATIONS

-----------------------------------------------------------------------------
(* main, lines 80-184: the steps of one generation and its handlers *)

\* the files generate_audio writes (audio_generator.py, lines 96 and 102)
TempVoiceover == <<"temp_", "voiceover.mp3">>
TempTiming == <<"temp_", "timing.json">>

MainFiles == {TempVoiceover, TempTiming}

\* config.ASSETS_DIR.glob("temp_*"), line 30
GlobTemp(files) == {f \in files : f[1] = "temp_"}

\* cleanup_temp_files, lines 26-36: every selected file is unlinked; a file
\* whose unlink raises is reported and left
cleanup_temp_files(files, locked) ==
    [assets |-> files \ (GlobTemp(files) \ locked),
     warnings |-> GlobTemp(files) \cap locked]

\* what generate_script may return: a script with and without 'keywords'
MainScripts ==
    {[hook |-> <<WA>>, has_body |-> FALSE, body |-> <<>>,
      has_segments |-> TRUE, segments |-> <<<<WB>>>>, has_keywords |-> k] :
        k \in BOOLEAN}

InitMain ==
    /\ pc = "script"
    /\ result = "running"
    /\ script_data = NoScript
    /\ assets = {}
    /\ undeletable \in SUBSET MainFiles
    /\ warnings = {}
    /\ run = 1
    /\ last_run = NoRun
    /\ word_timings = <<>>
    /\ timing_file = <<>>
    /\ use_exact = FALSE
    /\ total_duration = 0
    /\ fixed_duration = 0
    /\ segment_idx = 0
    /\ word_index = 0
    /\ base_scenes = <<>>
    /\ scenes = <<>>
    /\ current_time = 0
    /\ scene_start_time = 0
    /\ current_scene_words = <<>>
    /\ strategy = <<>>
    /\ clipIdle
    /\ searchIdle
    /\ assignIdle

mainUnch == <<word_timings, timing_file, use_exact, total_duration,
              fixed_duration, segment_idx, word_index, base_scenes, scenes,
              current_time, scene_start_time, current_scene_words, strategy,
              searchVars, assignVars, undeletable, run, last_run, clipVars>>

\* line 83: generate_script returns the script or raises
MainScript ==
    /\ pc = "script"
    /\ \/ \E sd \in MainScripts : script_data' = sd /\ pc' = "audio"
       \/ script_data' = script_data /\ pc' = "failed"
    /\ UNCHANGED <<mainUnch, result, assets, warnings>>

\* line 87, audio_generator.py lines 96-100: the voiceover is streamed to
\* temp_voiceover.mp3; an error leaves what was written
MainVoiceover ==
    /\ pc = "audio"
    /\ assets' = assets \cup {TempVoiceover}
    /\ pc' \in {"timing", "failed"}
    /\ UNCHANGED <<mainUnch, result, script_data, warnings>>

\* audio_generator.py lines 102-106: the timings are saved
MainTiming ==
    /\ pc = "timing"
    /\ assets' = assets \cup {TempTiming}
    /\ pc' = "probe"
    /\ UNCHANGED <<mainUnch, result, script_data, warnings>>

\* lines 91-94: the duration of the voiceover is read
MainProbe ==
    /\ pc = "probe"
    /\ pc' \in {"download", "failed"}
    /\ UNCHANGED <<mainUnch, result, script_data, assets, warnings>>

\* line 96: script_data['keywords'] raises KeyError when the key is missing;
\* download_videos(visual_queries, fallback_topic=None) has no parameter
\* audio_duration, so the call raises TypeError
MainDownload ==
    /\ pc = "download"
    /\ pc' = "failed"
    /\ result' = IF script_data.has_keywords THEN "TypeError" ELSE "KeyError"
    /\ UNCHANGED <<mainUnch, script_data, assets, warnings>>

\* KeyboardInterrupt is raised in the step that is running; an interrupted
\* write leaves a partial file
MainInterrupt ==
    /\ pc \in {"script", "audio", "timing", "probe", "download"}
    /\ pc' = "cancelled"
    /\ assets' \in
          (IF pc = "audio" THEN {assets, assets \cup {TempVoiceover}}
           ELSE IF pc = "timing" THEN {assets, assets \cup {TempTiming}}
           ELSE {assets})
    /\ UNCHANGED <<mainUnch, result, script_data, warnings>>

\* the handler of a step: the files are cleaned up and the process exits
MainHandler(code) ==
    LET cleaned == cleanup_temp_files(assets, undeletable)
    IN /\ assets' = cleaned.assets
       /\ warnings' = cleaned.warnings
       /\ result' = code
       /\ pc' = "exited"
       /\ UNCHANGED <<mainUnch, script_data>>

\* lines 175-178
MainCancelled == pc = "cancelled" /\ MainHandler("exit 0")

\* lines 180-184
MainFailed == pc = "failed" /\ MainHandler("exit 1")

NextMain ==
    \/ MainScript
    \/ MainVoiceover
    \/ MainTiming
    \/ MainProbe
    \/ MainDownload
    \/ MainInterrupt
    \/ MainCancelled
    \/ MainFailed

SpecMain == InitMain /\ [][NextMain]_vars

\* the process has exited after the user interrupted a step
ExitedAfterInterrupt == pc = "exited" /\ result = "exit 0"

\* C18: when main is interrupted during a step of the generation, the
\* pipeline stops without an output video and every temporary file written
\* so far, partial ones included, is deleted when the process exits.
C18_InterruptLeavesNoTempFile ==
    ExitedAfterInterrupt => assets = {}

-----------------------------------------------------------------------------
(* Repeated calls of search_videos and of assign_clips_to_scenes in one
   process *)

MaxRuns == 2   \* calls of a function in one process

\* a set that lives at module level and keeps what the last call put in
FreshSet_KeptFromLastCall(previous) == previous

\* video_downloader.py lines 816-817: set() is evaluated in the call
FreshSet(previous) == {}

\* video_editor.py lines 661-665: the list and the dict of the call
FreshOffsets(previous) == <<>>

\* the calls that are repeated: the runs of the query "car", and the scene
\* lists with two entries of video_paths or none
RunsSearchInput == visual_queries = <<QCar>>

RunsAssignInput ==
    /\ Len(video_paths) \in {0, 2}
    /\ unreadable = {}

InitRuns ==
    \/ InitSearch /\ RunsSearchInput
    \/ InitAssign /\ RunsAssignInput

\* search_videos is called again with the same arguments, lines 794-817
SvCallAgain ==
    /\ pc = "done"
    /\ calls # {}
    /\ run < MaxRuns
    /\ run' = run + 1
    /\ last_run' = [seen_video_urls |-> seen_video_urls,
                    used_local_files |-> used_local_files,
                    video_offsets |-> <<>>]
    /\ pc' = "sv_start"
    /\ segment_idx' = 0
    /\ result' = "running"
    /\ variation_num' = 0
    /\ segment_variations' = <<>>
    /\ all_segment_variations' = <<>>
    /\ seen_video_urls' = FreshSet(seen_video_urls)
    /\ used_local_files' = FreshSet(used_local_files)
    /\ visual_query' = <<>>
    /\ category' = None
    /\ category_urls' = <<>>
    /\ primary_source' = None
    /\ video_urls' = <<>>
    /\ fallback_attempts' = 0
    /\ calls' = {}
    /\ reshuffle_log' = <<>>
    /\ provider_log' = <<>>
    /\ clip_source' = <<>>
    /\ UNCHANGED <<svInputs, sceneRest, assignVars, assets, undeletable,
                   warnings, clipVars>>

\* assign_clips_to_scenes is called again with the same arguments,
\* lines 647-665
AcCallAgain ==
    /\ pc = "done"
    /\ calls = {}
    /\ result = "returned"
    /\ run < MaxRuns
    /\ run' = run + 1
    /\ last_run' = [seen_video_urls |-> {}, used_local_files |-> {},
                    video_offsets |-> video_offsets]
    /\ pc' = "assign"
    /\ segment_idx' = 0
    /\ result' = "running"
    /\ positioned_clips' = <<>>
    /\ video_offsets' = FreshOffsets(video_offsets)
    /\ UNCHANGED <<scenes, video_paths, video_duration, unreadable,
                   sceneRest, searchVars, assets, undeletable, warnings,
                   clipVars>>

NextRuns == NextSearch \/ NextAssign \/ SvCallAgain \/ AcCallAgain

SpecRuns == InitRuns /\ [][NextRuns]_vars

\* the local files of the candidates the call has chosen so far
FilesChosen ==
    {f \in local_files :
        \E k \in 1..Len(ListsSoFar) : \E n \in 1..Len(ListsSoFar[k]) :
            ListsSoFar[k][n].local_path = LocalPath(f)}

\* C19: every call of search_videos starts with an empty seen set and an
\* empty set of used local files, every call of assign_clips_to_scenes with
\* no offset cursor and no clip, whatever the call before it left; the
\* marks of a call are those of its own choices, so a repeated call with
\* the same inputs and answers marks the same assets.
C19_FreshStatePerCall ==
    /\ pc = "sv_start" =>
          /\ seen_video_urls = {}
          /\ used_local_files = {}
          /\ all_segment_variations = <<>>
          /\ segment_variations = <<>>
    /\ pc \in {"local", "curated", "flat", "search", "done"} =>
          used_local_files \subseteq FilesChosen
    /\ (pc = "assign" /\ segment_idx = 0) =>
          /\ video_offsets = <<>>
          /\ positioned_clips = <<>>
    /\ pc = "assign" =>
          \A s \in DOMAIN video_offsets :
              \E k \in 1..segment_idx : SegmentIndexOf(scenes[k], k - 1) = s

\* a second call starts although the first one ended with marked assets
C19_Witness ==
    /\ run = 2
    /\ pc = "sv_start"
    /\ last_run.seen_video_urls \cup last_run.used_local_files # {}

-----------------------------------------------------------------------------
(* Properties of the jump cut and of the offset cursor *)

LengthOfClip(c) == video_duration[c.video_path]

\* clip k was cut for a sub-cut whose asset is at least as long as the scene
SubcutOnLongEnoughAsset(k) ==
    /\ ~positioned_clips[k].fallback
    /\ IsSubcut(SceneOfClip(positioned_clips[k]))
    /\ LengthOfClip(positioned_clips[k]) >= positioned_clips[k].duration

\* clip k is the latest step of the loop
JustTaken(k) ==
    k = Len(positioned_clips) /\ positioned_clips[k].scene + 1 = segment_idx

\* the window of clip k would have ended past the asset: the jump cut
JumpCutTaken(k) ==
    /\ k > 1
    /\ SameSubcutRun(k - 1, k)
    /\ positioned_clips[k - 1].end_time + positioned_clips[k].duration
           > LengthOfClip(positioned_clips[k])

\* C20: for a sub-cut of duration d on an asset of length L >= d the window
\* taken, after a jump cut too, is [s, s + d] with 0 <= s and s + d <= L;
\* after the sub-cut the cursor of the segment is the end of that window,
\* is at most L, and is not smaller than after the sub-cut before it.
C20_JumpCutStaysInsideAsset ==
    \A k \in 1..Len(positioned_clips) :
        SubcutOnLongEnoughAsset(k) =>
            LET c == positioned_clips[k]
                segment_index == SegmentOfClip(c)
            IN /\ 0 =< c.start_time
               /\ c.end_time = c.start_time + c.duration
               /\ c.end_time =< LengthOfClip(c)
               /\ JustTaken(k) =>
                     /\ segment_index \in DOMAIN video_offsets
                     /\ video_offsets[segment_index] = c.end_time
               /\ (k > 1 /\ SameSubcutRun(k - 1, k)) =>
                     positioned_clips[k - 1].end_time =< c.end_time

\* the second sub-cut of a segment was moved back into the asset
C20_Witness ==
    \E k \in 1..Len(positioned_clips) :
        /\ SubcutOnLongEnoughAsset(k)
        /\ JumpCutTaken(k)
        /\ JustTaken(k)
        /\ positioned_clips[k].num_loops = 0
        /\ positioned_clips[k].end_time = LengthOfClip(positioned_clips[k])

-----------------------------------------------------------------------------
(* Properties of the clip built for a scene *)

\* C21: a clip cut from an asset of length L > 0 for a scene of duration d
\* is either n = ceil(d / L) copies of the asset cut to [0, d], and it is
\* that whenever L is not greater than d, or the window [in, out] of the
\* asset with out - in = d and out <= L; in both cases it lasts exactly d.
C21_LoopOrWindow ==
    \A k \in 1..Len(positioned_clips) :
        LET c == positioned_clips[k]
            L == LengthOfClip(c)
            d == SceneOfClip(c).duration
        IN ~c.fallback =>
              /\ c.duration = d
              /\ L =< d => c.num_loops > 0
              /\ c.num_loops > 0 =>
                    /\ c.num_loops * L >= d
                    /\ (c.num_loops - 1) * L < d
                    /\ c.start_time = 0
                    /\ c.end_time = d
              /\ c.num_loops = 0 =>
                    /\ 0 =< c.start_time
                    /\ c.end_time - c.start_time = d
                    /\ c.end_time =< L

\* an asset of 2 s was looped for a longer scene, and a longer asset cut
C21_Witness ==
    /\ AcReturned
    /\ \E k \in 1..Len(positioned_clips) :
          /\ ~positioned_clips[k].fallback
          /\ positioned_clips[k].num_loops = 2
          /\ LengthOfClip(positioned_clips[k]) < positioned_clips[k].duration
    /\ \E k \in 1..Len(positioned_clips) :
          /\ ~positioned_clips[k].fallback
          /\ positioned_clips[k].num_loops = 0
          /\ positioned_clips[k].start_time > 0

-----------------------------------------------------------------------------
(* download_youtube_clip, video_downloader.py lines 325-613: one clip is cut
   out of one of the given links.  The answers of yt-dlp and ffmpeg are the
   environment's; files are <<prefix, name>> pairs as in main.py above. *)

\* the largest number of links a call is given
MaxUrls == 4

\* line 325: the default of clip_duration, in seconds
clip_duration == 4

\* line 394: a source shorter than this many seconds is skipped
MIN_SOURCE_DURATION == 120

\* lines 399-400: seconds kept clear at the start and at the end of a source
SAFE_MARGIN == 60

\* line 366: the cap on the links one call tries
MAX_URL_ATTEMPTS == 3

\* the links of a call: k different ones, and one link given twice
UrlNames == <<"url1", "url2", "url3", "url4", "url5", "url6">>

ClipUrlLists ==
    {[k \in 1..n |-> UrlNames[k]] : n \in 0..MaxUrls}
        \cup {<<"url1", "url1">>}

\* the lengths yt-dlp reports for a source, in seconds
SourceDurations == {0, 100, 123, 124, 125, 300}

output_path == <<"", "segment_0_v1.mp4">>

\* line 459
temp_full_video == <<"temp_full_", output_path[2]>>

\* line 534
temp_full_video_720p == <<"temp_720p_", output_path[2]>>

ClipFiles == {output_path, temp_full_video, temp_full_video_720p}

\* Path.unlink behind `if path.exists()`
Unlink(files, f) == files \ {f}

\* line 366
MaxAttempts_All(urls) == Len(urls)

MaxAttempts(urls) == Min(Len(urls), MAX_URL_ATTEMPTS)

\* line 370
AvailableUrls ==
    {video_urls[k] : k \in {j \in 1..Len(video_urls) :
        \A a \in 1..Len(attempted_urls) : attempted_urls[a] # video_urls[j]}}

\* the handler of the range download, lines 446-447
RangeHandler(files) == Unlink(files, output_path)

Method2Handler_OutputOnly(files) == Unlink(files, output_path)

\* the handler of the full download, lines 522-528
Method2Handler(files) ==
    Unlink(Unlink(files, temp_full_video), output_path)

\* the handler of the last resort, lines 595-599
Method3Handler(files) ==
    Unlink(Unlink(files, temp_full_video_720p), output_path)

\* the handler of the attempt, lines 601-606
AttemptHandler(files) == Unlink(files, output_path)

NextMethod_SkipsFull(method, ffmpeg) ==
    IF ~ffmpeg THEN "pick"
    ELSE IF method = 1 THEN "last_resort" ELSE "pick"

\* where a pass goes after a method has failed: lines 450-455 after the
\* range download, 530-536 after the full download, 554, 588 and 599 after
\* the last resort
NextMethod(method, ffmpeg) ==
    IF ~ffmpeg THEN "pick"
    ELSE IF method = 1 THEN "full"
    ELSE IF method = 2 THEN "last_resort"
    ELSE "pick"

\* one more method has run on the link of the pass
Logged(method, ok) ==
    Append(method_log, [url |-> video_url, method |-> method, ok |-> ok])

InitClip ==
    /\ pc = "clip"
    /\ result = "running"
    /\ video_urls \in ClipUrlLists
    /\ YOUTUBE_AVAILABLE \in BOOLEAN
    /\ assets = {}
    /\ clipIdle
    /\ local_files = {}
    /\ manual_urls_dict = [form |-> "dict", urls |-> <<>>]
    /\ visual_queries = <<>>
    /\ fallback_topic = <<>>
    /\ variation_num = 0
    /\ segment_variations = <<>>
    /\ all_segment_variations = <<>>
    /\ seen_video_urls = {}
    /\ used_local_files = {}
    /\ visual_query = <<>>
    /\ category = None
    /\ category_urls = <<>>
    /\ primary_source = None
    /\ fallback_attempts = 0
    /\ calls = {}
    /\ reshuffle_log = <<>>
    /\ provider_log = <<>>
    /\ clip_source = <<>>
    /\ undeletable = {}
    /\ warnings = {}
    /\ run = 1
    /\ last_run = NoRun
    /\ script_data = NoScript
    /\ word_timings = <<>>
    /\ timing_file = <<>>
    /\ use_exact = FALSE
    /\ total_duration = 0
    /\ fixed_duration = 0
    /\ segment_idx = 0
    /\ word_index = 0
    /\ base_scenes = <<>>
    /\ scenes = <<>>
    /\ current_time = 0
    /\ scene_start_time = 0
    /\ current_scene_words = <<>>
    /\ strategy = <<>>
    /\ assignIdle

clipUnch == <<sceneRest, segment_idx, local_files, manual_urls_dict,
              YOUTUBE_AVAILABLE, visual_queries, fallback_topic,
              variation_num, segment_variations, all_segment_variations,
              seen_video_urls, used_local_files, visual_query, category,
              category_urls, primary_source, video_urls, fallback_attempts,
              calls, reshuffle_log, provider_log, clip_source, assignVars,
              undeletable, warnings, run, last_run>>

\* lines 350-366: no yt-dlp or no link ends the call, else ffmpeg is looked
\* up and the loop begins
ClipEntry ==
    /\ pc = "clip"
    /\ IF ~YOUTUBE_AVAILABLE \/ video_urls = <<>>
       THEN /\ pc' = "done"
            /\ result' = "False"
            /\ UNCHANGED ffmpeg_path
       ELSE /\ pc' = "pick"
            /\ ffmpeg_path' \in BOOLEAN
            /\ UNCHANGED result
    /\ UNCHANGED <<attempt, attempted_urls, video_url, method_log, assets,
                   clipUnch>>

\* lines 368-375 and 613: the head of the attempt loop picks a link not yet
\* tried; the loop ends after max_attempts passes or with no link left
ClipPick ==
    /\ pc = "pick"
    /\ IF attempt < MaxAttempts(video_urls) /\ AvailableUrls # {}
       THEN /\ \E url \in AvailableUrls :
                 /\ video_url' = url
                 /\ attempted_urls' = Append(attempted_urls, url)
            /\ attempt' = attempt + 1
            /\ pc' = "info"
            /\ UNCHANGED result
       ELSE /\ pc' = "done"
            /\ result' = "False"
            /\ UNCHANGED <<attempt, attempted_urls, video_url>>
    /\ UNCHANGED <<ffmpeg_path, method_log, assets, clipUnch>>

\* lines 377-407 and 601-606: the length of the source is asked for; a
\* failure, a short source or an empty window ends the pass
ClipInfo ==
    /\ pc = "info"
    /\ \/ /\ assets' = AttemptHandler(assets)
          /\ pc' = "pick"
       \/ \E duration \in SourceDurations :
            LET safe_start == SAFE_MARGIN
                safe_end == duration - SAFE_MARGIN - clip_duration
            IN /\ pc' = IF duration < MIN_SOURCE_DURATION
                            \/ safe_end =< safe_start
                        THEN "pick" ELSE "range"
               /\ UNCHANGED assets
    /\ UNCHANGED <<result, ffmpeg_path, attempt, attempted_urls, video_url,
                   method_log, clipUnch>>

\* lines 412-452: the range download; a clip with content returns True, a
\* failure or an empty or missing clip goes to the handler
ClipRange ==
    /\ pc = "range"
    /\ \/ /\ assets' = assets \cup {output_path}
          /\ pc' = "done"
          /\ result' = "True"
          /\ method_log' = Logged(1, TRUE)
       \/ \E written \in SUBSET {output_path} :
            /\ assets' = RangeHandler(assets \cup written)
            /\ pc' = NextMethod(1, ffmpeg_path)
            /\ UNCHANGED result
            /\ method_log' = Logged(1, FALSE)
    /\ UNCHANGED <<ffmpeg_path, attempt, attempted_urls, video_url,
                   clipUnch>>

\* lines 455-528: the full download and the local cut.  The download or the
\* cut may fail after writing its file; every failure passes the handler.
ClipFull ==
    /\ pc = "full"
    /\ \/ /\ assets' = Unlink(assets \cup {temp_full_video, output_path},
                              temp_full_video)
          /\ pc' = "done"
          /\ result' = "True"
          /\ method_log' = Logged(2, TRUE)
       \/ \E written \in SUBSET {temp_full_video} :
            \* the download raised, or left no file (line 479)
            /\ assets' = Method2Handler(assets \cup written)
            /\ pc' = NextMethod(2, ffmpeg_path)
            /\ UNCHANGED result
            /\ method_log' = Logged(2, FALSE)
       \/ \E written \in SUBSET {output_path} :
            \* ffmpeg ran into the timeout of line 501
            /\ assets' = Method2Handler(
                             assets \cup {temp_full_video} \cup written)
            /\ pc' = NextMethod(2, ffmpeg_path)
            /\ UNCHANGED result
            /\ method_log' = Logged(2, FALSE)
       \/ \E written \in SUBSET {output_path} :
            \* the cut failed: lines 505-515, then the handler
            /\ assets' = Method2Handler(Unlink(Unlink(
                             assets \cup {temp_full_video} \cup written,
                             temp_full_video), output_path))
            /\ pc' = NextMethod(2, ffmpeg_path)
            /\ UNCHANGED result
            /\ method_log' = Logged(2, FALSE)
    /\ UNCHANGED <<ffmpeg_path, attempt, attempted_urls, video_url,
                   clipUnch>>

\* lines 530-599: the last resort, the universal format and the local cut
ClipLastResort ==
    /\ pc = "last_resort"
    /\ \/ /\ assets' = Unlink(
                 assets \cup {temp_full_video_720p, output_path},
                 temp_full_video_720p)
          /\ pc' = "done"
          /\ result' = "True"
          /\ method_log' = Logged(3, TRUE)
       \/ \* the download left no file: line 552-554
          /\ UNCHANGED assets
          /\ pc' = NextMethod(3, ffmpeg_path)
          /\ UNCHANGED result
          /\ method_log' = Logged(3, FALSE)
       \/ \E written \in SUBSET {temp_full_video_720p} :
            \* the download raised
            /\ assets' = Method3Handler(assets \cup written)
            /\ pc' = NextMethod(3, ffmpeg_path)
            /\ UNCHANGED result
            /\ method_log' = Logged(3, FALSE)
       \/ \E written \in SUBSET {output_path} :
            \* ffmpeg ran into the timeout of line 574
            /\ assets' = Method3Handler(
                             assets \cup {temp_full_video_720p} \cup written)
            /\ pc' = NextMethod(3, ffmpeg_path)
            /\ UNCHANGED result
            /\ method_log' = Logged(3, FALSE)
       \/ \E written \in SUBSET {output_path} :
            \* the cut failed: lines 578-588
            /\ assets' = Unlink(Unlink(
                             assets \cup {temp_full_video_720p} \cup written,
                             temp_full_video_720p), output_path)
            /\ pc' = NextMethod(3, ffmpeg_path)
            /\ UNCHANGED result
            /\ method_log' = Logged(3, FALSE)
    /\ UNCHANGED <<ffmpeg_path, attempt, attempted_urls, video_url,
                   clipUnch>>

NextClip ==
    \/ ClipEntry
    \/ ClipPick
    \/ ClipInfo
    \/ ClipRange
    \/ ClipFull
    \/ ClipLastResort

SpecClip == InitClip /\ [][NextClip]_vars

\* every step of the call is taken at last: the calls into yt-dlp return
\* or raise, ffmpeg is stopped after 30 s (lines 501, 574)
SpecClipFair == SpecClip /\ WF_vars(NextClip)

ClipReturned == pc = "done" /\ result \in {"True", "False"}

\* the different links among those a call was given
DistinctUrls == {video_urls[k] : k \in 1..Len(video_urls)}

\* C22: for every link the methods run in the order range download (1),
\* full download with local cut (2), last resort with local cut (3): the
\* first method on a link is 1 and the link is a new one, a later method
\* follows its predecessor on the same link, and only a failed method is
\* followed by anything; a success is the last entry and the call has
\* returned True with it; the call ends with True or False and nothing
\* else, and False is returned only after Min(links, 3) different links
\* were tried.
C22_MethodsInOrder ==
    /\ \A j \in 1..Len(method_log) :
           LET e == method_log[j]
           IN /\ e.method \in 1..3
              /\ e.method = 1 =>
                     \A i \in 1..(j - 1) : method_log[i].url # e.url
              /\ e.method > 1 =>
                     /\ j > 1
                     /\ method_log[j - 1].url = e.url
                     /\ method_log[j - 1].method = e.method - 1
              /\ j < Len(method_log) => ~e.ok
              /\ e.ok <=> (j = Len(method_log) /\ result = "True")
    /\ result = "True" =>
           /\ pc = "done"
           /\ method_log # <<>>
           /\ method_log[Len(method_log)].ok
    /\ pc = "done" => result \in {"True", "False"}
    /\ (pc = "done" /\ result = "False" /\ YOUTUBE_AVAILABLE) =>
           Len(attempted_urls) = Min(Cardinality(DistinctUrls), 3)

\* the first link failed in all three methods, the second succeeded in the
\* third
C22_Witness ==
    /\ ClipReturned
    /\ result = "True"
    /\ Len(method_log) = 6
    /\ method_log[3].method = 3
    /\ method_log[4].method = 1
    /\ method_log[6].ok

\* what one call may try: no more links than it was given and no more than
\* three, and no link twice
AttemptsBounded ==
    /\ Len(attempted_urls) =< Min(Len(video_urls), 3)
    /\ attempt =< Min(Len(video_urls), 3)
    /\ Len(attempted_urls) = attempt
    /\ \A i, j \in 1..Len(attempted_urls) :
           attempted_urls[i] = attempted_urls[j] => i = j
    /\ \A i \in 1..Len(attempted_urls) : attempted_urls[i] \in DistinctUrls

\* C23: a call with n links tries at most Min(n, 3) of them and none of
\* them twice, and it comes to its end, where it has returned True or False.
C23_BoundedAttemptsAndReturn ==
    /\ [](AttemptsBounded /\ (pc = "done" => ClipReturned))
    /\ <>(pc = "done")

\* a call given four links has returned False after three different ones
C23_Witness ==
    /\ ClipReturned
    /\ result = "False"
    /\ Len(video_urls) = 4
    /\ Len(attempted_urls) = 3
    /\ Len(method_log) >= 3

\* the files of the call that are on disk
ClipFilesPresent == assets \cap ClipFiles

\* C30: when the call has returned False on a directory that held none of
\* its files, neither the clip nor the file of the full download nor the
\* file of the last resort is there.
C30_NothingLeftOnFalse ==
    (pc = "done" /\ result = "False") => ClipFilesPresent = {}

\* False after the local cut was tried on two links
C30_Witness ==
    /\ ClipReturned
    /\ result = "False"
    /\ ClipFilesPresent = {}
    /\ \E i, j \in 1..Len(method_log) :
           /\ method_log[i].method = 3
           /\ method_log[j].method = 3
           /\ i # j

-----------------------------------------------------------------------------
(* The order of the provider queries of one segment, lines 1052-1108 *)

InStockSearch ==
    pc \in {"search_primary", "search_secondary", "search_dark",
            "search_collect"}

\* of the two stock providers, the one that is not p
OtherProvider(p) == CHOOSE q \in {"pexels", "pixabay"} : q # p

\* the queries a segment would issue if no answer ever filled its list
FullEscalation ==
    <<[provider |-> primary_source, query |-> visual_query],
      [provider |-> OtherProvider(primary_source), query |-> visual_query]>>
    \o [k \in 1..Len(DARK_AESTHETIC_FALLBACKS) |->
           [provider |-> primary_source,
            query |-> DARK_AESTHETIC_FALLBACKS[k]]]
    \o (IF fallback_topic # <<>>
        THEN <<[provider |-> primary_source, query |-> fallback_topic]>>
        ELSE <<>>)

IsPrefix(s, t) == Len(s) =< Len(t) /\ s = SubSeq(t, 1, Len(s))

QueriesInOrder ==
    InStockSearch =>
        /\ IsPrefix(provider_log, FullEscalation)
        /\ \A a, b \in 1..Len(video_urls) :
               a # b => video_urls[a] # video_urls[b]
        /\ fallback_attempts =< Len(DARK_AESTHETIC_FALLBACKS)

\* a query is issued only while the links found are fewer than K
QueryOnlyWhileShort ==
    Len(provider_log') > Len(provider_log) =>
        Len(video_urls) < SCENE_VIDEO_VARIATIONS

\* the stage of the segment's search
StockStage ==
    CASE pc = "search_primary" -> 1
      [] pc = "search_secondary" -> 2
      [] pc = "search_dark" -> 3
      [] pc = "search_collect" -> 4
      [] OTHER -> 5

\* every step of the segment's search issues one more query of the
\* escalation or moves on to a later stage
EscalationAdvances ==
    InStockSearch =>
        \/ Len(provider_log') = Len(provider_log) + 1
        \/ StockStage' > StockStage

EntryModulo(k) == video_paths[(k % Len(video_paths)) + 1]

\* C25: a clip cut for a scene that carries segment_index s comes from
\* entry s mod n of the n entries of video_paths, wherever the scene stands
\* in the list; a clip cut for a scene without segment_index at position i
\* comes from entry i mod n.
C25_BoundBySegmentIndex ==
    \A k \in 1..Len(positioned_clips) :
        LET c == positioned_clips[k]
            scene == scenes[c.scene + 1]
        IN ~c.fallback =>
              IF "segment_index" \in DOMAIN scene
              THEN c.video_path = EntryModulo(scene.segment_index)
              ELSE c.video_path = EntryModulo(c.scene)

\* a scene of segment 1 stands first in the list because segment 0 gave no
\* scene, and its clip comes from entry 1, not from entry 0
C25_Witness ==
    /\ AcReturned
    /\ \E k \in 1..Len(positioned_clips) :
           LET c == positioned_clips[k]
               scene == scenes[c.scene + 1]
           IN /\ ~c.fallback
              /\ "segment_index" \in DOMAIN scene
              /\ scene.segment_index = 1
              /\ c.scene = 0
              /\ c.video_path = EntryModulo(1)
              /\ c.video_path # EntryModulo(0)

-----------------------------------------------------------------------------
(* The timing cursor of create_semantic_scenes, lines 385-449 *)

\* segment j (0-based) has words after normalize
HasWords(j) == normalize(script_data.segments[j + 1]) # <<>>

\* segment j has its scene in base_scenes
HasScene(j) ==
    \E k \in 1..Len(base_scenes) : base_scenes[k].segment_index = j

\* the segments with words the loop has gone through
WordSegmentsDone == {j \in 0..(segment_idx - 1) : HasWords(j)}

MatchedIsPrefix ==
    pc = "sem_match" =>
        /\ word_index \in 0..Len(word_timings)
        /\ \A j, k \in WordSegmentsDone :
               (j < k /\ HasScene(k)) => HasScene(j)
        /\ \A j \in WordSegmentsDone :
               ~HasScene(j) => word_index = Len(word_timings)
        /\ \A j \in 0..(segment_idx - 1) : ~HasWords(j) => ~HasScene(j)
        /\ \A a, b \in 1..Len(base_scenes) :
               a < b =>
                  /\ base_scenes[a].segment_index < base_scenes[b].segment_index
                  /\ base_scenes[a].end_time =< base_scenes[b].start_time

CursorForward == word_index' >= word_index

\* C26: the cursor into the timing list never moves back; the scenes of two
\* segments lie one after the other on the timing list, so no timing word
\* belongs to two of them; the segments that have a scene are the first of
\* the segments with words; and after a segment with words that got no
\* scene the cursor stands at the end of the timing list.
C26_MatchedSegmentsFormPrefix ==
    []MatchedIsPrefix /\ [][CursorForward]_vars

\* the first segment failed and used up the timing list, so the second got
\* no scene although its word is among the timings
C26_Witness ==
    /\ pc = "sem_match"
    /\ segment_idx = 2
    /\ HasWords(0) /\ HasWords(1)
    /\ ~HasScene(0) /\ ~HasScene(1)
    /\ word_index = Len(word_timings)
    /\ \E k \in 1..Len(word_timings) :
           normalize(word_timings[k].word)
               = normalize(script_data.segments[2])

-----------------------------------------------------------------------------
(* download_videos, video_downloader.py lines 1278-1431: K clips per query
   are cut from the local files.  Its lists are kept in the variables of
   search_videos: downloaded_segment_paths in all_segment_variations,
   variation_paths in segment_variations, i in segment_idx and v in
   variation_num. *)

\* config.ASSETS_DIR / f"segment_{i}_v{v}.mp4", line 1336
clip_output_path(i, v) == <<"segment", i, "v", v>>

DownloadQueryLists == {<<>>, <<QCar>>, <<QCar, QCity>>}

InitDownload ==
    /\ pc = "dv_start"
    /\ result = "running"
    /\ segment_idx = 0
    /\ visual_queries \in DownloadQueryLists
    /\ local_files \in LocalPools
    /\ manual_urls_dict = [form |-> "dict", urls |-> <<>>]
    /\ YOUTUBE_AVAILABLE = FALSE
    /\ fallback_topic = <<>>
    /\ variation_num = 1
    /\ segment_variations = <<>>
    /\ all_segment_variations = <<>>
    /\ seen_video_urls = {}
    /\ used_local_files = {}
    /\ visual_query = <<>>
    /\ category = None
    /\ category_urls = <<>>
    /\ primary_source = None
    /\ video_urls = <<>>
    /\ fallback_attempts = 0
    /\ calls = {}
    /\ reshuffle_log = <<>>
    /\ provider_log = <<>>
    /\ clip_source = <<>>
    /\ script_data = NoScript
    /\ word_timings = <<>>
    /\ timing_file = <<>>
    /\ use_exact = FALSE
    /\ total_duration = 0
    /\ fixed_duration = 0
    /\ word_index = 0
    /\ base_scenes = <<>>
    /\ scenes = <<>>
    /\ current_time = 0
    /\ scene_start_time = 0
    /\ current_scene_words = <<>>
    /\ strategy = <<>>
    /\ assignIdle
    /\ processIdle
    /\ clipIdle

dvUnch == <<svInputs, svStock, seen_video_urls, used_local_files, category,
            category_urls, reshuffle_log, clip_source, sceneRest, assignVars,
            undeletable, warnings, run, last_run, attempt, attempted_urls,
            video_url, method_log>>

\* lines 1303-1329: without a local file, ffmpeg or ffprobe the call returns
\* one empty list per query
DvEntry ==
    /\ pc = "dv_start"
    /\ calls' = calls \cup {"get_local_footage_files"}
    /\ \E ffmpeg, ffprobe \in BOOLEAN :
         /\ ffmpeg_path' = ffmpeg
         /\ IF local_files = {} \/ ~ffmpeg \/ ~ffprobe
            THEN /\ all_segment_variations' =
                       [k \in 1..Len(visual_queries) |-> <<>>]
                 /\ pc' = "dv_done"
                 /\ result' = "returned"
            ELSE /\ pc' = "dv_loop"
                 /\ UNCHANGED <<all_segment_variations, result>>
    /\ UNCHANGED <<segment_idx, variation_num, segment_variations, assets,
                   dvUnch>>

\* lines 1335-1428: one pass of the variation loop.  The clip is cut, or the
\* whole file is copied when the source is short, the cut fails, a tool
\* times out or anything else raises; a copy that fails in a handler is not
\* caught.  The list is appended after the last variation.
DvVariation ==
    /\ pc = "dv_loop"
    /\ InLoop
    /\ \E source_file \in local_files :
       \E outcome \in {"cut", "copy", "copy_raises"} :
          LET output_path_v == clip_output_path(segment_idx, variation_num)
              list == Append(segment_variations, output_path_v)
          IN IF outcome = "copy_raises"
             THEN /\ pc' = "dv_done"
                  /\ result' = "raised"
                  /\ UNCHANGED <<segment_variations, all_segment_variations,
                                 segment_idx, variation_num, assets>>
             ELSE /\ assets' = assets \cup {output_path_v}
                  /\ UNCHANGED <<pc, result>>
                  /\ IF variation_num < SCENE_VIDEO_VARIATIONS
                     THEN /\ segment_variations' = list
                          /\ variation_num' = variation_num + 1
                          /\ UNCHANGED <<all_segment_variations,
                                         segment_idx>>
                     ELSE EndSegment(list)
    /\ calls' = calls \cup {"find_best_matching_local_file"}
    /\ UNCHANGED <<ffmpeg_path, dvUnch>>

\* lines 1430-1431
DvReturn ==
    /\ pc = "dv_loop"
    /\ ~InLoop
    /\ pc' = "dv_done"
    /\ result' = "returned"
    /\ UNCHANGED <<segment_idx, variation_num, segment_variations,
                   all_segment_variations, assets, calls, ffmpeg_path,
                   dvUnch>>

NextDownload == DvEntry \/ DvVariation \/ DvReturn

\* a call of search_videos or a call of download_videos
InitCandidates == InitSearch \/ InitDownload

NextCandidates == NextSearch \/ NextDownload

SpecCandidates == InitCandidates /\ [][NextCandidates]_vars

\* list k holds the candidates of segment k - 1 and nothing else
ListBelongsTo(k) ==
    \A n \in 1..Len(all_segment_variations[k]) :
        LET c == all_segment_variations[k][n]
        IN IF pc = "dv_done"
           THEN \E v \in 1..SCENE_VIDEO_VARIATIONS :
                    c = clip_output_path(k - 1, v)
           ELSE c.segment_index = k - 1

C29_VariationNumbersDistinct ==
    (SvReturned /\ "clean_and_map_query" \in calls) =>
        \A k \in 1..Len(all_segment_variations) :
            \A a, b \in 1..Len(all_segment_variations[k]) :
                a # b =>
                    all_segment_variations[k][a].variation_number
                        # all_segment_variations[k][b].variation_number

====
